---- MODULE Spec2Model ----
(***************************************************************************)
(* Model of the highlight assembly code of mlb-highlights:                 *)
(*   src/lib/transcription.js            getSelectionSegments              *)
(*   src/app/components/TranscriptEditor.js  buildSegments, index maps     *)
(*   src/app/components/UnifiedPlayList.js   selection state, generate     *)
(*   src/app/api/generate-rundown-video/route.js  POST                     *)
(*   src/lib/video-processor.js          createRundownVideo, concatenate   *)
(*                                                                         *)
(* Clip time is counted in ticks of 0.05 s: 0.15 s = 3, 0.3 s = 6,         *)
(* 0.5 s = 10.  Array indices are the JavaScript indices (from 0); the     *)
(* element with index i of a list is the (i+1)-th element of the sequence. *)
(***************************************************************************)
EXTENDS Integers, Sequences, FiniteSets, TLC

VARIABLES
    pc,               \* position of the modelled run
    words,            \* transcript: sequence of [start, end]
    selectedIndices,  \* getSelectionSegments: the selectedIndices argument
    buffer,           \* getSelectionSegments: the buffer argument
    trimSegments,     \* getSelectionSegments: the returned list of {start, end}
    duration,         \* TranscriptEditor: the duration prop (totalDuration)
    segments,         \* TranscriptEditor: buildSegments(words, duration)
    selectedSegmentIndices,  \* TranscriptEditor: selected segment indices
    wordIndices,      \* segmentIndicesToWordIndices: the returned word indices
    tData,            \* UnifiedPlayList: transcriptData[key] of the play
    drag,             \* TranscriptEditor: isDragging, dragStart, dragEnd, dragMode
    request,          \* body of the POST to /api/generate-rundown-video (clips)
    clipsWithSegments,  \* route.js: what POST hands to createRundownVideo
    generationError,  \* UnifiedPlayList: generationError (<<>> is null)
    clipsWithSelections,  \* createRundownVideo: the rundown items it is called with
    titleCardUrl,     \* createRundownVideo: whether a title card URL was given
    clipIndex,        \* createRundownVideo: i of the for loop
    trimmedPaths,     \* createRundownVideo: trimmedPaths
    filesToCleanup,   \* createRundownVideo: filesToCleanup
    outcomes,         \* what happened to the title card (index 0) and to each item
    concatInputs,     \* videoPaths of the call concatenateVideos(trimmedPaths, finalPath)
    durations,        \* concatenateVideos: probed durations, in 1/3000 s
    transitionFrames, \* concatenateVideos: transitionFrames
    cumulativeDuration,  \* concatenateVideos: cumulativeDuration, in 1/3000 s
    xfadeOffsets,     \* concatenateVideos: offset of each xfade stage as printed, in ms
    now,              \* Date.now() of the browser, in units of 3.5 days
    localStorage,     \* localStorage item "transcript_<url>" of each video URL
    otherTranscripts, \* number of "transcript_" items of other videos in localStorage
    transcribingRef,  \* UnifiedPlayList: transcribingRef.current
    inflight,         \* POSTs to /api/transcribe that have not been answered
    transcriptData,   \* UnifiedPlayList: transcriptData of each play key
    selectedKeys,     \* UnifiedPlayList: selectedKeys
    toTranscribe,     \* initial load: keys its loop has still to transcribe
    awaited,          \* initial load: URL of the transcribeClip call it awaits
    submissions,      \* number of POSTs to /api/transcribe sent for each video URL
    cacheCall,        \* the last call of a transcript cache function and its result
    hasElevenLabsKey, \* transcription.js: hasElevenLabsKey
    routePc,          \* /api/transcribe: position of each request
    providerOutcome,  \* /api/transcribe: what each provider did for each request
    routeResponse,    \* /api/transcribe: the response to each request (<<>> is none yet)
    disk,             \* files of the server: [path, by] under os.tmpdir(), paths elsewhere
    runs,             \* /api/generate-rundown-video: the locals of each running POST
    ioLog,            \* temp files the runs have read and written: [run, op, path, by]
    clipsWithAnalysis,  \* createSyncedPackage: the clips it is called with
    processedClips,   \* createSyncedPackage: processedClips
    syncedTotalDuration,  \* createSyncedPackage: totalDuration, in 1/3000 s
    audioFiles,       \* mixAudioWithDucking: audioFiles, times in ms
    volumeKeyframes,  \* buildDuckingKeyframes: the returned expression
    activeTransitions,  \* UnifiedPlayList: activeTransitions
    renders,          \* UnifiedPlayList: renders whose effects have still to run
    manualOverride,   \* what the user last set each transition to, by toggling it
    sessionState,     \* mlbtv-auth.js: sessionState
    authCalls         \* mlbtv-auth.js: the running and finished calls of authenticate

reducerVars == <<selectedIndices, buffer, trimSegments>>
editorVars == <<duration, segments, selectedSegmentIndices, wordIndices>>
pathVars == <<tData, drag, request, clipsWithSegments, generationError>>
rundownVars == <<clipsWithSelections, titleCardUrl, clipIndex, trimmedPaths,
                 filesToCleanup, outcomes, concatInputs>>
concatVars == <<durations, transitionFrames, cumulativeDuration, xfadeOffsets>>

transcribeVars == <<now, localStorage, otherTranscripts, transcribingRef, inflight,
                    transcriptData, selectedKeys, toTranscribe, awaited, submissions>>
clientVars == <<transcribeVars, cacheCall>>
routeVars == <<hasElevenLabsKey, routePc, providerOutcome, routeResponse>>
runVars == <<runs, ioLog>>
serverVars == <<routeVars, disk, runVars>>
syncedVars == <<clipsWithAnalysis, processedClips, syncedTotalDuration>>
duckingVars == <<audioFiles, volumeKeyframes>>
toggleVars == <<activeTransitions, renders, manualOverride>>
authVars == <<sessionState, authCalls>>
extVars == <<syncedVars, duckingVars, toggleVars, authVars>>
restVars == <<clientVars, serverVars, extVars>>
assemblyVarsButPc == <<words, reducerVars, editorVars, pathVars, rundownVars, concatVars>>
assemblyVars == <<pc, assemblyVarsButPc>>

vars == <<assemblyVars, restVars>>

(***************************************************************************)
(* Bounds and input sets                                                   *)
(***************************************************************************)
MaxWords == 4
MaxSegWords == 3
MaxEditorWords == 2
MaxClips == 3
MaxInputs == 4

\* silences between words (ticks) and word lengths the word lists are built from
GapSet == {0, 7, 9}
LenSet == {0, 4}
\* 0.1 s (the default of getSelectionSegments) and 0.15 s (the rundown route)
Buffers == {2, 3}

MergeGap == 10

\* silences, word length and trailing silences of the segment model's inputs
SegGapSet == {0, 4, 6, 8, 9, 24}
SegLenSet == {2}
TrailSet == {0, 4, 6, 8, 9}

\* silences of the transcripts shown in the editor: 0.1 s and 1.2 s
EditorGapSet == {2, 24}

ROUTE_BUFFER == 3

\* probed durations in 1/3000 s: 0.3 s, 0.9 s, 1.5 s and 2.008333 s
DurationSet == {900, 2700, 4500, 6025}
FrameSet == {9, 10}
\* the files of the innings directory a rundown may name
TransitionKeys == {"top-1", "bot-1"}

GAP_THRESHOLD == 6
GAP_UNIT == 6

LastEnd(ws) == IF ws = <<>> THEN 0 ELSE ws[Len(ws)].end

RECURSIVE WordLists(_, _, _)
WordLists(n, gaps, lens) ==
    IF n = 0 THEN {<<>>}
    ELSE { Append(ws, [start |-> LastEnd(ws) + g, end |-> LastEnd(ws) + g + l]) :
              ws \in WordLists(n - 1, gaps, lens), g \in gaps, l \in lens }

\* the Word invariant of the transcript: ordered, non-overlapping
WordInvariant(ws) ==
    /\ \A i \in 1..Len(ws) : ws[i].start >= 0 /\ ws[i].end >= ws[i].start
    /\ \A i \in 1..(Len(ws) - 1) : ws[i].end <= ws[i + 1].start

\* play keys, video URLs and feeds of the play list
Keys == {"k1", "k2"}
URLs == {"u1", "u2"}
FeedTypes == {"HOME", "AWAY"}
\* transcriptData[key] before anything was stored for the key
NoTranscriptData ==
    [transcript |-> <<>>, selectedWords |-> <<>>, duration |-> 0,
     isTranscribing |-> FALSE, error |-> <<>>, feedType |-> <<>>]

\* concurrent requests to /api/transcribe and the providers
Requests == {1, 2}
Providers == {"elevenlabs", "gemini"}
NoProvider == [p \in Providers |-> "not invoked"]

\* concurrent POSTs to /api/generate-rundown-video and their games
RunIds == {1, 2}
GamePks == {"g1", "g2"}
IdleRun ==
    [pc |-> "idle", gamePk |-> "g1", titleCardUrl |-> FALSE, clips |-> <<>>,
     clipsWithSegments |-> <<>>, i |-> 0, j |-> 0, trimmedPaths |-> <<>>,
     filesToCleanup |-> <<>>, response |-> <<>>]

\* values of the variables a specification does not use
NoTData == [selectedWords |-> <<>>, selectedSegmentIndices |-> <<>>]
NoDrag == [isDragging |-> FALSE, dragStart |-> <<>>, dragEnd |-> <<>>, dragMode |-> "add"]
IdleRundown ==
    /\ clipsWithSelections = <<>>
    /\ titleCardUrl = FALSE
    /\ clipIndex = 0
    /\ trimmedPaths = <<>>
    /\ filesToCleanup = <<>>
    /\ outcomes = <<>>
    /\ concatInputs = <<>>
IdleConcat ==
    /\ durations = <<>>
    /\ transitionFrames = 10
    /\ cumulativeDuration = 0
    /\ xfadeOffsets = <<>>
IdleEditor ==
    /\ duration = 0
    /\ segments = <<>>
    /\ selectedSegmentIndices = <<>>
    /\ wordIndices = <<>>
IdlePath ==
    /\ tData = NoTData
    /\ drag = NoDrag
    /\ request = <<>>
    /\ clipsWithSegments = <<>>
    /\ generationError = <<>>
IdleReducer ==
    /\ selectedIndices = <<>>
    /\ buffer = 3
    /\ trimSegments = <<>>
IdleTranscribe ==
    /\ now = 1
    /\ localStorage = [u \in URLs |-> <<>>]
    /\ otherTranscripts = 0
    /\ transcribingRef = {}
    /\ inflight = <<>>
    /\ transcriptData = [k \in Keys |-> NoTranscriptData]
    /\ selectedKeys = {}
    /\ toTranscribe = <<>>
    /\ awaited = <<>>
    /\ submissions = [u \in URLs |-> 0]
IdleRoute ==
    /\ hasElevenLabsKey = FALSE
    /\ routePc = [r \in Requests |-> "idle"]
    /\ providerOutcome = [r \in Requests |-> NoProvider]
    /\ routeResponse = [r \in Requests |-> <<>>]
IdleRuns ==
    /\ runs = [r \in RunIds |-> IdleRun]
    /\ ioLog = {}
IdleServer ==
    /\ IdleRoute
    /\ disk = {}
    /\ IdleRuns
IdleSynced ==
    /\ clipsWithAnalysis = <<>>
    /\ processedClips = <<>>
    /\ syncedTotalDuration = 0
IdleDucking ==
    /\ audioFiles = <<>>
    /\ volumeKeyframes = <<>>
IdleToggle ==
    /\ activeTransitions = <<>>
    /\ renders = 0
    /\ manualOverride = <<>>
IdleAuth ==
    /\ sessionState = <<>>
    /\ authCalls = <<>>
IdleExt ==
    /\ IdleSynced
    /\ IdleDucking
    /\ IdleToggle
    /\ IdleAuth
IdleRest ==
    /\ IdleTranscribe
    /\ cacheCall = <<>>
    /\ IdleServer
    /\ IdleExt

(***************************************************************************)
(* JavaScript helpers                                                      *)
(***************************************************************************)
Max(a, b) == IF a >= b THEN a ELSE b
Min(a, b) == IF a <= b THEN a ELSE b

\* words[idx]: undefined (<<>>) outside the array
ArrayAt(arr, idx) ==
    IF idx >= 0 /\ idx < Len(arr) THEN <<arr[idx + 1]>> ELSE <<>>

RECURSIVE InsertSorted(_, _)
InsertSorted(x, s) ==
    IF s = <<>> THEN <<x>>
    ELSE IF x <= Head(s) THEN <<x>> \o s
    ELSE <<Head(s)>> \o InsertSorted(x, Tail(s))

SortUnsorted(s) == s

\* [...a].sort((a, b) => a - b)
RECURSIVE SortNum(_)
SortNum(s) == IF s = <<>> THEN <<>> ELSE InsertSorted(Head(s), SortNum(Tail(s)))

(***************************************************************************)
(* getSelectionSegments (src/lib/transcription.js 368-407)                 *)
(***************************************************************************)
BufferedStartNoClamp(word, b) == word.start - b

\* Math.max(0, word.start - buffer)
BufferedStart(word, b) == Max(0, word.start - b)

CloseEnoughInclusive(gap) == gap <= MergeGap

\* word.start - currentEnd < 0.5
CloseEnough(gap) == gap < MergeGap

\* the loop state before the first iteration; <<>> is null
ReducerStart ==
    [segments |-> <<>>, currentStart |-> <<>>, currentEnd |-> <<>>, prevIdx |-> <<>>]

\* one iteration of `for (const idx of sorted)`
ReducerStep(ws, idx, b, st) ==
    LET w == ArrayAt(ws, idx) IN
    IF w = <<>> THEN st
    ELSE IF st.currentStart = <<>> THEN
        [st EXCEPT !.currentStart = <<BufferedStart(w[1], b)>>,
                   !.currentEnd = <<w[1].end + b>>,
                   !.prevIdx = <<idx>>]
    ELSE IF idx = st.prevIdx[1] + 1 THEN
        [st EXCEPT !.currentEnd = <<w[1].end + b>>, !.prevIdx = <<idx>>]
    ELSE IF CloseEnough(w[1].start - st.currentEnd[1]) THEN
        [st EXCEPT !.currentEnd = <<w[1].end + b>>, !.prevIdx = <<idx>>]
    ELSE
        [segments |-> Append(st.segments,
                             [start |-> st.currentStart[1], end |-> st.currentEnd[1]]),
         currentStart |-> <<BufferedStart(w[1], b)>>,
         currentEnd |-> <<w[1].end + b>>,
         prevIdx |-> <<idx>>]

RECURSIVE ReducerLoop(_, _, _, _)
ReducerLoop(ws, sorted, b, st) ==
    IF sorted = <<>> THEN st
    ELSE ReducerLoop(ws, Tail(sorted), b, ReducerStep(ws, Head(sorted), b, st))

getSelectionSegments(ws, sel, b) ==
    IF Len(sel) = 0 THEN <<>>
    ELSE LET st == ReducerLoop(ws, SortNum(sel), b, ReducerStart) IN
         IF st.currentStart # <<>>
         THEN Append(st.segments, [start |-> st.currentStart[1], end |-> st.currentEnd[1]])
         ELSE st.segments

(***************************************************************************)
(* Inputs of the reducer: a set of indices (one of them past the end of    *)
(* the word list), presented ascending or descending, with or without a    *)
(* repeated element.                                                       *)
(***************************************************************************)
RECURSIVE Ascending(_)
Ascending(S) ==
    IF S = {} THEN <<>>
    ELSE LET m == CHOOSE x \in S : \A y \in S : x <= y
         IN <<m>> \o Ascending(S \ {m})

RECURSIVE Reverse(_)
Reverse(s) == IF s = <<>> THEN <<>> ELSE Append(Reverse(Tail(s)), Head(s))

Presentations(S) ==
    LET asc == Ascending(S) IN
    IF S = {} THEN {<<>>}
    ELSE {asc, Reverse(asc), Append(asc, asc[1]), <<asc[Len(asc)]>> \o Reverse(asc)}

ReducerInputs ==
    UNION { WordLists(n, GapSet, LenSet) : n \in 0..MaxWords }

InitReducer ==
    /\ pc = "reducer_call"
    /\ words \in ReducerInputs
    /\ WordInvariant(words)
    /\ \E S \in SUBSET (0..Len(words)) : selectedIndices \in Presentations(S)
    /\ buffer \in Buffers
    /\ trimSegments = <<>>
    /\ duration = 0
    /\ segments = <<>>
    /\ selectedSegmentIndices = <<>>
    /\ wordIndices = <<>>
    /\ tData = NoTData
    /\ drag = NoDrag
    /\ request = <<>>
    /\ clipsWithSegments = <<>>
    /\ generationError = <<>>
    /\ IdleRundown
    /\ IdleConcat
    /\ IdleRest

\* the call getSelectionSegments(words, selectedIndices, buffer) returns
ReduceSelection ==
    /\ pc = "reducer_call"
    /\ trimSegments' = getSelectionSegments(words, selectedIndices, buffer)
    /\ pc' = "reducer_done"
    /\ UNCHANGED <<restVars, words, selectedIndices, buffer, editorVars, pathVars, rundownVars, concatVars>>

NextReducer == ReduceSelection

SpecReducer == InitReducer /\ [][NextReducer]_vars

(***************************************************************************)
(* Segment model (src/app/components/TranscriptEditor.js 14-104)           *)
(***************************************************************************)
RoundDown(a, b) == a \div b

\* Math.round(a / b) for a >= 0, b > 0: halves round up
RoundHalfUp(a, b) == (2 * a + b) \div (2 * b)

IsGapStrict(gapDuration) == gapDuration > GAP_THRESHOLD

\* gapDuration >= GAP_THRESHOLD
IsGap(gapDuration) == gapDuration >= GAP_THRESHOLD

\* the for loop of addGapSegments, i = 0 .. underscoreCount - 1
RECURSIVE GapLoop(_, _, _, _)
GapLoop(segs, currentStart, gapEnd, left) ==
    IF left = 0 THEN segs
    ELSE LET currentEnd == Min(currentStart + GAP_UNIT, gapEnd)
         IN GapLoop(Append(segs, [type |-> "gap", start |-> currentStart,
                                  end |-> currentEnd,
                                  duration |-> currentEnd - currentStart,
                                  segmentIndex |-> Len(segs)]),
                    currentEnd, gapEnd, left - 1)

addGapSegments(segs, gapStart, gapEnd) ==
    LET gapDuration == gapEnd - gapStart IN
    IF IsGap(gapDuration)
    THEN GapLoop(segs, gapStart, gapEnd, Max(1, RoundHalfUp(gapDuration, GAP_UNIT)))
    ELSE segs

\* words.forEach((word, index) => ...), from the word with JavaScript index `index`
RECURSIVE WordLoop(_, _, _)
WordLoop(ws, index, segs) ==
    IF index >= Len(ws) THEN segs
    ELSE LET word == ws[index + 1]
             withGap == IF index > 0
                        THEN addGapSegments(segs, ws[index].end, word.start)
                        ELSE segs
         IN WordLoop(ws, index + 1,
                     Append(withGap, [type |-> "word", start |-> word.start,
                                      end |-> word.end, originalIndex |-> index,
                                      segmentIndex |-> Len(withGap)]))

buildSegments(ws, totalDuration) ==
    IF Len(ws) = 0 THEN <<>>
    ELSE LET leading == IF ws[1].start >= GAP_THRESHOLD
                        THEN addGapSegments(<<>>, 0, ws[1].start)
                        ELSE <<>>
             body == WordLoop(ws, 0, leading)
             lastWord == ws[Len(ws)]
         IN IF totalDuration > 0 /\ totalDuration - lastWord.end >= GAP_THRESHOLD
            THEN addGapSegments(body, lastWord.end, totalDuration)
            ELSE body

RECURSIVE SegToWordLoop(_, _)
SegToWordLoop(segs, sel) ==
    IF sel = <<>> THEN <<>>
    ELSE LET seg == ArrayAt(segs, Head(sel))
         IN (IF seg # <<>> /\ seg[1].type = "word" THEN <<seg[1].originalIndex>> ELSE <<>>)
            \o SegToWordLoop(segs, Tail(sel))

segmentIndicesToWordIndices(segs, sel) == SortNum(SegToWordLoop(segs, sel))

SeqRange(s) == {s[i] : i \in 1..Len(s)}

RECURSIVE WordToSegLoop(_, _, _)
WordToSegLoop(segs, wordIndexSet, i) ==
    IF i >= Len(segs) THEN <<>>
    ELSE (IF segs[i + 1].type = "word" /\ segs[i + 1].originalIndex \in wordIndexSet
          THEN <<i>> ELSE <<>>)
         \o WordToSegLoop(segs, wordIndexSet, i + 1)

WordIndicesAsSegmentIndices(segs, wi) == Ascending(SeqRange(wi))

wordIndicesToSegmentIndices(segs, wi) == WordToSegLoop(segs, SeqRange(wi), 0)

(***************************************************************************)
(* The segment functions applied to drawn inputs                           *)
(***************************************************************************)
SegmentInputs ==
    UNION { WordLists(n, SegGapSet, SegLenSet) : n \in 0..MaxSegWords }

InitSegments ==
    /\ pc = "segments_call"
    /\ words \in SegmentInputs
    /\ WordInvariant(words)
    /\ duration \in {0} \cup {LastEnd(words) + t : t \in TrailSet}
    /\ \E S \in SUBSET (0..(Len(words) - 1)) : selectedIndices \in Presentations(S)
    /\ buffer = 3
    /\ trimSegments = <<>>
    /\ segments = <<>>
    /\ selectedSegmentIndices = <<>>
    /\ wordIndices = <<>>
    /\ tData = NoTData
    /\ drag = NoDrag
    /\ request = <<>>
    /\ clipsWithSegments = <<>>
    /\ generationError = <<>>
    /\ IdleRundown
    /\ IdleConcat
    /\ IdleRest

\* useMemo(() => buildSegments(words, duration))
CallBuildSegments ==
    /\ pc = "segments_call"
    /\ segments' = buildSegments(words, duration)
    /\ pc' = "segments_built"
    /\ UNCHANGED <<restVars, words, reducerVars, duration, selectedSegmentIndices, wordIndices, pathVars,
                   rundownVars, concatVars>>

\* useState(() => wordIndicesToSegmentIndices(segments, selectedIndices))
CallWordIndicesToSegmentIndices ==
    /\ pc = "segments_built"
    /\ selectedSegmentIndices' = wordIndicesToSegmentIndices(segments, selectedIndices)
    /\ pc' = "segments_selected"
    /\ UNCHANGED <<restVars, words, reducerVars, duration, segments, wordIndices, pathVars,
                   rundownVars, concatVars>>

\* notifySelectionChange: segmentIndicesToWordIndices(segments, newSegmentIndices)
CallSegmentIndicesToWordIndices ==
    /\ pc = "segments_selected"
    /\ wordIndices' = segmentIndicesToWordIndices(segments, selectedSegmentIndices)
    /\ pc' = "segments_round_trip"
    /\ UNCHANGED <<restVars, words, reducerVars, duration, segments, selectedSegmentIndices, pathVars,
                   rundownVars, concatVars>>

NextSegments ==
    \/ CallBuildSegments
    \/ CallWordIndicesToSegmentIndices
    \/ CallSegmentIndicesToWordIndices

SpecSegments == InitSegments /\ [][NextSegments]_vars

(***************************************************************************)
(* Rundown path of one play: TranscriptEditor selection ->                 *)
(* handleWordSelectionChange -> handleGenerateVideo -> POST -> reducer     *)
(* (TranscriptEditor.js 181-328, UnifiedPlayList.js 597-607 and 945-1032,  *)
(*  api/generate-rundown-video/route.js 12-83)                             *)
(***************************************************************************)
AllIndices(arr) == [i \in 1..Len(arr) |-> i - 1]

\* the effect that follows a change of the selection props (188-195)
SyncSelection(current, selectedSegmentIndicesProp, selIdx, segs) ==
    IF Len(selectedSegmentIndicesProp) > 0 THEN selectedSegmentIndicesProp
    ELSE IF Len(selIdx) > 0 THEN wordIndicesToSegmentIndices(segs, selIdx)
    ELSE current

\* notifySelectionChange(newSegmentIndices), the parent's
\* handleWordSelectionChange and the effect of the re-render
notifySelectionChange(newSegmentIndices) ==
    LET wi == segmentIndicesToWordIndices(segments, newSegmentIndices) IN
    /\ wordIndices' = wi
    /\ tData' = [tData EXCEPT !.selectedWords = wi,
                              !.selectedSegmentIndices = newSegmentIndices]
    /\ selectedSegmentIndices' = SyncSelection(newSegmentIndices, newSegmentIndices, wi, segments)

EditorInputs ==
    UNION { WordLists(n, EditorGapSet, SegLenSet) : n \in 1..MaxEditorWords }

\* the selection transcribeClip leaves with a fresh transcript: all words,
\* or the selection restored from the rundown cache when it is not empty
\* (UnifiedPlayList.js 782-800, 488-498 and 530-540); the restored one was
\* made on an earlier transcript of the clip and may name a word past the
\* end of this one
RestoredSelections(ws) == {AllIndices(ws), Append(AllIndices(ws), Len(ws))}

\* the play after transcribeClip stored its transcript and the editor mounted
InitRundownPath ==
    /\ pc = "editing"
    /\ words \in EditorInputs
    /\ WordInvariant(words)
    /\ duration = LastEnd(words)
    /\ segments = buildSegments(words, duration)
    /\ \E restored \in RestoredSelections(words) :
          tData = [selectedWords |-> restored, selectedSegmentIndices |-> <<>>]
    /\ selectedSegmentIndices = wordIndicesToSegmentIndices(segments, tData.selectedWords)
    /\ wordIndices = <<>>
    /\ drag = NoDrag
    /\ selectedIndices = <<>>
    /\ buffer = ROUTE_BUFFER
    /\ trimSegments = <<>>
    /\ request = <<>>
    /\ clipsWithSegments = <<>>
    /\ generationError = <<>>
    /\ IdleRundown
    /\ IdleConcat
    /\ IdleRest

Includes(arr, x) == \E i \in 1..Len(arr) : arr[i] = x

handleMouseDown(index) ==
    /\ pc = "editing"
    /\ ~drag.isDragging
    /\ drag' = [isDragging |-> TRUE, dragStart |-> <<index>>, dragEnd |-> <<index>>,
                dragMode |-> IF Includes(selectedSegmentIndices, index)
                             THEN "remove" ELSE "add"]
    /\ UNCHANGED <<restVars, pc, words, reducerVars, editorVars, tData, request,
                   clipsWithSegments, generationError, rundownVars, concatVars>>

handleMouseEnter(index) ==
    /\ pc = "editing"
    /\ drag.isDragging
    /\ drag' = [drag EXCEPT !.dragEnd = <<index>>]
    /\ UNCHANGED <<restVars, pc, words, reducerVars, editorVars, tData, request,
                   clipsWithSegments, generationError, rundownVars, concatVars>>

handleMouseUp ==
    /\ pc = "editing"
    /\ drag.isDragging
    /\ LET from == Min(drag.dragStart[1], drag.dragEnd[1])
           to == Max(drag.dragStart[1], drag.dragEnd[1])
           old == SeqRange(selectedSegmentIndices)
           newSelection == IF drag.dragMode = "add"
                           THEN old \cup (from..to)
                           ELSE old \ (from..to)
       IN notifySelectionChange(SortNum(Ascending(newSelection)))
    /\ drag' = NoDrag
    /\ UNCHANGED <<restVars, pc, words, reducerVars, duration, segments, request,
                   clipsWithSegments, generationError, rundownVars, concatVars>>

handleSelectAll ==
    /\ pc = "editing"
    /\ ~drag.isDragging
    /\ notifySelectionChange(AllIndices(segments))
    /\ UNCHANGED <<restVars, pc, words, reducerVars, duration, segments, drag, request,
                   clipsWithSegments, generationError, rundownVars, concatVars>>

handleDeselectAll ==
    /\ pc = "editing"
    /\ ~drag.isDragging
    /\ notifySelectionChange(<<>>)
    /\ UNCHANGED <<restVars, pc, words, reducerVars, duration, segments, drag, request,
                   clipsWithSegments, generationError, rundownVars, concatVars>>

\* handleGenerateVideo up to the fetch (945-1019), the play being selected
handleGenerateVideo ==
    /\ pc = "editing"
    /\ ~drag.isDragging
    /\ LET clipsForGeneration ==
              IF Len(tData.selectedWords) > 0
              THEN <<[transcript |-> words, selectedWords |-> tData.selectedWords]>>
              ELSE <<>>
       IN IF Len(clipsForGeneration) = 0
          THEN /\ generationError' = <<"No clips with selected words to generate">>
               /\ request' = <<>>
               /\ pc' = "generation_failed"
          ELSE /\ generationError' = <<>>
               /\ request' = clipsForGeneration
               /\ pc' = "request_sent"
    /\ UNCHANGED <<restVars, words, reducerVars, editorVars, tData, drag, clipsWithSegments,
                   rundownVars, concatVars>>

\* POST of /api/generate-rundown-video up to the call of createRundownVideo
RECURSIVE ClipsToSegments(_)
ClipsToSegments(clips) ==
    IF clips = <<>> THEN <<>>
    ELSE LET clip == Head(clips)
             segs == getSelectionSegments(clip.transcript, clip.selectedWords, ROUTE_BUFFER)
         IN (IF Len(segs) > 0 THEN <<[segments |-> segs]>> ELSE <<>>)
            \o ClipsToSegments(Tail(clips))

POST ==
    /\ pc = "request_sent"
    /\ LET cws == ClipsToSegments(request) IN
       IF Len(cws) = 0
       THEN /\ generationError' = <<"No clips with valid segments">>
            /\ clipsWithSegments' = <<>>
            /\ pc' = "generation_failed"
       ELSE /\ clipsWithSegments' = cws
            /\ generationError' = <<>>
            /\ pc' = "assembling"
    /\ UNCHANGED <<restVars, words, reducerVars, editorVars, tData, drag, request, rundownVars, concatVars>>

NextRundownPath ==
    \/ \E index \in 0..(Len(segments) - 1) : handleMouseDown(index)
    \/ \E index \in 0..(Len(segments) - 1) : handleMouseEnter(index)
    \/ handleMouseUp
    \/ handleSelectAll
    \/ handleDeselectAll
    \/ handleGenerateVideo
    \/ POST

SpecRundownPath == InitRundownPath /\ [][NextRundownPath]_vars

\* the segments the user has selected in the editor, as positions
SelectedGapsOnly ==
    /\ Len(tData.selectedSegmentIndices) > 0
    /\ \A i \in 1..Len(tData.selectedSegmentIndices) :
          segments[tData.selectedSegmentIndices[i] + 1].type = "gap"

SelectedConsecutive ==
    \A i \in 1..(Len(tData.selectedSegmentIndices) - 1) :
        tData.selectedSegmentIndices[i + 1] = tData.selectedSegmentIndices[i] + 1

\* C4: once generation has left the editor, a selection made only of
\* consecutive gap segments has given the clip surgeon exactly one interval,
\* which spans those gap segments (within the buffer).
C4_GapSelectionReachesSurgeon ==
    (pc \in {"assembling", "generation_failed"} /\ SelectedGapsOnly /\ SelectedConsecutive) =>
        LET sel == tData.selectedSegmentIndices
            first == segments[sel[1] + 1]
            last == segments[sel[Len(sel)] + 1]
        IN /\ Len(clipsWithSegments) = 1
           /\ Len(clipsWithSegments[1].segments) = 1
           /\ clipsWithSegments[1].segments[1].start <= first.start
           /\ clipsWithSegments[1].segments[1].start >= first.start - ROUTE_BUFFER
           /\ clipsWithSegments[1].segments[1].end >= last.end
           /\ clipsWithSegments[1].segments[1].end <= last.end + ROUTE_BUFFER

(***************************************************************************)
(* createRundownVideo (src/lib/video-processor.js 659-748)                 *)
(***************************************************************************)
TitleCardPath == <<"tempDir", "title-card.mp4">>
TrimmedPath(i) == <<"tempDir", "trimmed", i>>
TransitionPath(key) == <<"innings", key>>

Unshift(arr, x) == <<x>> \o arr

\* arr.push(x)
Push(arr, x) == Append(arr, x)

RundownItems ==
    {[isTransition |-> TRUE, transitionPath |-> TransitionPath(k), hasSegments |-> FALSE] :
        k \in TransitionKeys}
    \cup {[isTransition |-> FALSE, transitionPath |-> <<>>, hasSegments |-> h] :
             h \in BOOLEAN}

RECURSIVE SeqsUpTo(_, _)
SeqsUpTo(S, n) ==
    IF n = 0 THEN {<<>>}
    ELSE SeqsUpTo(S, n - 1)
         \cup {Append(q, x) : q \in {r \in SeqsUpTo(S, n - 1) : Len(r) = n - 1}, x \in S}

InitRundown ==
    /\ pc = "rundown_title"
    /\ clipsWithSelections \in SeqsUpTo(RundownItems, MaxClips)
    /\ titleCardUrl \in BOOLEAN
    /\ clipIndex = 0
    /\ trimmedPaths = <<>>
    /\ filesToCleanup = <<>>
    /\ outcomes = <<>>
    /\ concatInputs = <<>>
    /\ words = <<>>
    /\ IdleReducer
    /\ IdleEditor
    /\ IdlePath
    /\ IdleConcat
    /\ IdleRest

\* lines 667-691: the title card is downloaded and cut, or the attempt fails
TitleCard ==
    /\ pc = "rundown_title"
    /\ IF ~titleCardUrl
       THEN /\ outcomes' = <<"none">>
            /\ UNCHANGED <<trimmedPaths, filesToCleanup>>
       ELSE \E ok \in BOOLEAN :
               IF ok
               THEN /\ trimmedPaths' = Push(trimmedPaths, TitleCardPath)
                    /\ filesToCleanup' = Push(filesToCleanup, TitleCardPath)
                    /\ outcomes' = <<"added">>
               ELSE /\ outcomes' = <<"failed">>
                    /\ UNCHANGED <<trimmedPaths, filesToCleanup>>
    /\ pc' = "rundown_loop"
    /\ UNCHANGED <<restVars, words, reducerVars, editorVars, pathVars, clipsWithSelections,
                   titleCardUrl, clipIndex, concatInputs, concatVars>>

\* one iteration of the for loop (693-732) on a transition item
ProcessTransition ==
    /\ pc = "rundown_loop"
    /\ clipIndex < Len(clipsWithSelections)
    /\ LET clip == clipsWithSelections[clipIndex + 1] IN
       /\ clip.isTransition
       /\ \E accessible \in BOOLEAN :
             IF accessible
             THEN /\ trimmedPaths' = Push(trimmedPaths, clip.transitionPath)
                  /\ outcomes' = Append(outcomes, "added")
             ELSE /\ outcomes' = Append(outcomes, "failed")
                  /\ UNCHANGED trimmedPaths
    /\ clipIndex' = clipIndex + 1
    /\ UNCHANGED <<restVars, pc, words, reducerVars, editorVars, pathVars, clipsWithSelections,
                   titleCardUrl, filesToCleanup, concatInputs, concatVars>>

\* one iteration of the for loop on a play: no segments, or the download or
\* the trim throws, or the trimmed fragment is added
ProcessPlay ==
    /\ pc = "rundown_loop"
    /\ clipIndex < Len(clipsWithSelections)
    /\ LET clip == clipsWithSelections[clipIndex + 1] IN
       /\ ~clip.isTransition
       /\ IF ~clip.hasSegments
          THEN /\ outcomes' = Append(outcomes, "skipped")
               /\ UNCHANGED <<trimmedPaths, filesToCleanup>>
          ELSE \E result \in {"download failed", "trim failed", "added"} :
                  /\ outcomes' = Append(outcomes, result)
                  /\ IF result = "added"
                     THEN /\ trimmedPaths' = Push(trimmedPaths, TrimmedPath(clipIndex))
                          /\ filesToCleanup' = Push(filesToCleanup, TrimmedPath(clipIndex))
                     ELSE UNCHANGED <<trimmedPaths, filesToCleanup>>
    /\ clipIndex' = clipIndex + 1
    /\ UNCHANGED <<restVars, pc, words, reducerVars, editorVars, pathVars, clipsWithSelections,
                   titleCardUrl, concatInputs, concatVars>>

\* lines 734-740: nothing to join throws, else concatenateVideos is called
FinishLoop ==
    /\ pc = "rundown_loop"
    /\ clipIndex = Len(clipsWithSelections)
    /\ IF Len(trimmedPaths) = 0
       THEN /\ pc' = "rundown_error"
            /\ UNCHANGED concatInputs
       ELSE /\ pc' = "rundown_concat"
            /\ concatInputs' = trimmedPaths
    /\ UNCHANGED <<restVars, words, reducerVars, editorVars, pathVars, clipsWithSelections,
                   titleCardUrl, clipIndex, trimmedPaths, filesToCleanup, outcomes,
                   concatVars>>

NextRundown ==
    \/ TitleCard
    \/ ProcessTransition
    \/ ProcessPlay
    \/ FinishLoop

SpecRundown == InitRundown /\ [][NextRundown]_vars

(***************************************************************************)
(* concatenateVideos (src/lib/video-processor.js 120-211): the xfade chain *)
(* Durations are counted in 1/3000 s, so that one frame at 30 fps is 100   *)
(* and one millisecond is 3.                                               *)
(***************************************************************************)
FrameUnits == 100
MsUnits == 3

\* transitionFrames / 30
TransitionDuration(frames) == frames * FrameUnits

\* x.toFixed(3): the nearest multiple of 0.001, in ms
ToFixed3(x) ==
    IF x >= 0 THEN (2 * x + MsUnits) \div (2 * MsUnits)
    ELSE -((2 * (-x) + MsUnits) \div (2 * MsUnits))

NextCumulativeNoOverlap(cumulative, d, t) == cumulative + d

\* cumulativeDuration += durations[i - 1] - transitionDuration
NextCumulative(cumulative, d, t) == cumulative + d - t

InitConcat ==
    /\ pc = "concat_call"
    /\ durations \in {q \in SeqsUpTo(DurationSet, MaxInputs) : Len(q) >= 1}
    /\ transitionFrames \in FrameSet
    /\ cumulativeDuration = 0
    /\ xfadeOffsets = <<>>
    /\ words = <<>>
    /\ IdleReducer
    /\ IdleEditor
    /\ IdlePath
    /\ IdleRundown
    /\ IdleRest

\* one input: the file is copied, no filter graph (122-125)
CopySingle ==
    /\ pc = "concat_call"
    /\ Len(durations) = 1
    /\ pc' = "concat_done"
    /\ UNCHANGED <<restVars, words, reducerVars, editorVars, pathVars, rundownVars, concatVars>>

\* the first xfade stage (146-153)
FirstStage ==
    /\ pc = "concat_call"
    /\ Len(durations) >= 2
    /\ cumulativeDuration' = durations[1]
    /\ xfadeOffsets' = <<ToFixed3(durations[1] - TransitionDuration(transitionFrames))>>
    /\ pc' = IF Len(durations) = 2 THEN "concat_run" ELSE "concat_chain"
    /\ UNCHANGED <<restVars, words, reducerVars, editorVars, pathVars, rundownVars, durations,
                   transitionFrames>>

\* one iteration of `for (let i = 2; ...)` (155-165); i = Len(xfadeOffsets) + 1
NextStage ==
    /\ pc = "concat_chain"
    /\ LET i == Len(xfadeOffsets) + 1
           c == NextCumulative(cumulativeDuration, durations[i],
                               TransitionDuration(transitionFrames))
       IN /\ cumulativeDuration' = c
          /\ xfadeOffsets' = Append(xfadeOffsets,
                                    ToFixed3(c - TransitionDuration(transitionFrames)))
          /\ pc' = IF i = Len(durations) - 1 THEN "concat_run" ELSE "concat_chain"
    /\ UNCHANGED <<restVars, words, reducerVars, editorVars, pathVars, rundownVars, durations,
                   transitionFrames>>

\* ffmpeg runs with the filter graph (189-210)
RunFilterGraph ==
    /\ pc = "concat_run"
    /\ pc' = "concat_done"
    /\ UNCHANGED <<restVars, words, reducerVars, editorVars, pathVars, rundownVars, concatVars>>

NextConcat ==
    \/ CopySingle
    \/ FirstStage
    \/ NextStage
    \/ RunFilterGraph

SpecConcat == InitConcat /\ [][NextConcat]_vars

(***************************************************************************)
(* Selection reducer: what the claims speak about                          *)
(***************************************************************************)
RECURSIVE SumSeq(_)
SumSeq(s) == IF s = <<>> THEN 0 ELSE Head(s) + SumSeq(Tail(s))

\* the selected indices that are indices of the word list
ValidSelected == {selectedIndices[i] : i \in 1..Len(selectedIndices)} \cap (0..(Len(words) - 1))

\* maximal runs of consecutive selected indices, as <<first, last>>, in order
RunFirsts(S) == {i \in S : (i - 1) \notin S}
RunLast(S, i) == CHOOSE j \in S : j >= i /\ (i..j) \subseteq S /\ (j + 1) \notin S
Runs(S) ==
    LET firsts == Ascending(RunFirsts(S))
    IN [k \in 1..Len(firsts) |-> <<firsts[k], RunLast(S, firsts[k])>>]

\* the interval of a run: [max(0, first.start - b), last.end + b]
RunInterval(run) ==
    [start |-> Max(0, words[run[1] + 1].start - buffer),
     end |-> words[run[2] + 1].end + buffer]

\* (next.start - b) - (prev.end + b) of two neighbouring runs
Separation(prev, next) ==
    (words[next[1] + 1].start - buffer) - (words[prev[2] + 1].end + buffer)

RunsFarApart ==
    LET rs == Runs(ValidSelected)
    IN \A k \in 1..(Len(rs) - 1) : Separation(rs[k], rs[k + 1]) >= MergeGap

\* C1: when no two neighbouring runs of selected words are within the merge
\* distance, the reducer returns exactly one interval per maximal run, in
\* order, and it is [max(0, first.start - b), last.end + b].
C1_OneIntervalPerRun ==
    (pc = "reducer_done" /\ RunsFarApart) =>
        LET rs == Runs(ValidSelected)
        IN trimSegments = [k \in 1..Len(rs) |-> RunInterval(rs[k])]

C1_Witness ==
    /\ pc = "reducer_done"
    /\ RunsFarApart
    /\ Len(Runs(ValidSelected)) >= 2
    /\ \E k \in 1..Len(Runs(ValidSelected)) :
          Runs(ValidSelected)[k][2] > Runs(ValidSelected)[k][1]
    /\ Len(trimSegments) = Len(Runs(ValidSelected))

\* C2: two neighbouring runs whose buffered intervals are less than 0.5 s
\* apart end up inside one returned interval.
C2_MergedBelowHalfSecond ==
    pc = "reducer_done" =>
        LET rs == Runs(ValidSelected)
        IN \A k \in 1..(Len(rs) - 1) :
              Separation(rs[k], rs[k + 1]) < MergeGap =>
                 \E i \in 1..Len(trimSegments) :
                    /\ trimSegments[i].start <= words[rs[k][1] + 1].start
                    /\ trimSegments[i].end >= words[rs[k + 1][2] + 1].end

\* C3: every returned interval has end > start and the intervals are
\* disjoint and strictly increasing.
C3_IntervalsOrdered ==
    pc = "reducer_done" =>
        /\ \A i \in 1..Len(trimSegments) : trimSegments[i].end > trimSegments[i].start
        /\ \A i \in 1..(Len(trimSegments) - 1) :
              trimSegments[i].end < trimSegments[i + 1].start

C3_Witness ==
    /\ pc = "reducer_done"
    /\ Len(trimSegments) >= 2
    /\ selectedIndices # SortNum(selectedIndices)
    /\ \E i \in 1..Len(selectedIndices) : selectedIndices[i] >= Len(words)
    /\ \E i, j \in 1..Len(selectedIndices) : i # j /\ selectedIndices[i] = selectedIndices[j]

OutputDuration == SumSeq([i \in 1..Len(trimSegments) |-> trimSegments[i].end - trimSegments[i].start])

SelectedWordsDuration ==
    LET asc == Ascending(ValidSelected)
    IN SumSeq([k \in 1..Len(asc) |-> words[asc[k] + 1].end - words[asc[k] + 1].start])

\* C5 as stated: output duration <= selected word durations + 2*b*runs.
C5_DurationBound ==
    pc = "reducer_done" =>
        OutputDuration <= SelectedWordsDuration + 2 * buffer * Len(Runs(ValidSelected))

\* the time between successive selected words that the reducer keeps: words
\* of one run, and words of two runs with next.start - prev.end < 0.5 s + b
KeptSilence ==
    LET asc == Ascending(ValidSelected)
        between(k) == words[asc[k + 1] + 1].start - words[asc[k] + 1].end
    IN SumSeq([k \in 1..(Len(asc) - 1) |->
                  IF asc[k + 1] = asc[k] + 1 \/ between(k) < MergeGap + buffer
                  THEN between(k) ELSE 0])

\* C5 (amended): output duration <= selected word durations + the kept time
\* between successive selected words + 2*b*runs.
C5_DurationBoundWithKeptSilence ==
    pc = "reducer_done" =>
        OutputDuration <= SelectedWordsDuration + KeptSilence
                             + 2 * buffer * Len(Runs(ValidSelected))

C5_Witness ==
    /\ pc = "reducer_done"
    /\ Len(Runs(ValidSelected)) >= 2
    /\ KeptSilence > 0
    /\ OutputDuration > SelectedWordsDuration + 2 * buffer * Len(Runs(ValidSelected))

(***************************************************************************)
(* Segment model: what the claims speak about                              *)
(***************************************************************************)
\* C6: translating word indices to segment indices and back gives the same
\* word indices, sorted.
C6_IndexRoundTrip ==
    pc = "segments_round_trip" => wordIndices = Ascending(SeqRange(selectedIndices))

C6_Witness ==
    /\ pc = "segments_round_trip"
    /\ Len(wordIndices) >= 2
    /\ selectedIndices # SortNum(selectedIndices)
    /\ selectedSegmentIndices # wordIndices
    /\ \E p \in 1..Len(segments) : segments[p].type = "gap"

SegmentsBuilt == pc \in {"segments_built", "segments_selected", "segments_round_trip"}

LeadingUncovered == segments[1].start
TrailingUncovered == duration - segments[Len(segments)].end

WordPos(i) ==
    CHOOSE p \in 1..Len(segments) :
        segments[p].type = "word" /\ segments[p].originalIndex = i

\* the silences of the clip, each with the positions of the segments around it
Silences ==
    IF Len(words) = 0 THEN {}
    ELSE {[s |-> 0, e |-> words[1].start, lo |-> 0, hi |-> WordPos(0)]}
         \cup {[s |-> words[i + 1].end, e |-> words[i + 2].start,
                lo |-> WordPos(i), hi |-> WordPos(i + 1)] : i \in 0..(Len(words) - 2)}
         \cup (IF duration > 0
               THEN {[s |-> words[Len(words)].end, e |-> duration,
                      lo |-> WordPos(Len(words) - 1), hi |-> Len(segments) + 1]}
               ELSE {})

LongSilences == {sil \in Silences : sil.e - sil.s >= GAP_THRESHOLD}

GapCount(sil) == sil.hi - sil.lo - 1

ItemPath(i) ==
    IF clipsWithSelections[i + 1].isTransition
    THEN clipsWithSelections[i + 1].transitionPath
    ELSE TrimmedPath(i)

\* the files of the items from index i on that were processed successfully
RECURSIVE AddedFrom(_)
AddedFrom(i) ==
    IF i >= Len(clipsWithSelections) THEN <<>>
    ELSE (IF outcomes[i + 2] = "added" THEN <<ItemPath(i)>> ELSE <<>>) \o AddedFrom(i + 1)

\* C9: the files handed to the final concatenation are the title card (when
\* it was extracted) followed by the successfully processed rundown items in
\* rundown order, each once.
C9_RundownOrderPreserved ==
    pc = "rundown_concat" =>
        concatInputs = (IF outcomes[1] = "added" THEN <<TitleCardPath>> ELSE <<>>)
                          \o AddedFrom(0)

C9_Witness ==
    /\ pc = "rundown_concat"
    /\ outcomes[1] = "added"
    /\ Len(concatInputs) >= 3
    /\ \E i \in 2..Len(outcomes) : outcomes[i] \in {"download failed", "trim failed", "failed"}
    /\ \E i, j \in 1..Len(clipsWithSelections) :
          /\ i < j
          /\ clipsWithSelections[i].isTransition /\ outcomes[i + 1] = "added"
          /\ ~clipsWithSelections[j].isTransition /\ outcomes[j + 1] = "added"

(***************************************************************************)
(* Crossfade chain: what the claims speak about                            *)
(***************************************************************************)
\* d0 + ... + dj
DurationSum(j) == SumSeq([i \in 1..(j + 1) |-> durations[i]])

\* (d0 + ... + dj) - (j + 1) * T, in 1/3000 s
ExactOffset(j) == DurationSum(j) - (j + 1) * transitionFrames * FrameUnits

Abs(x) == IF x >= 0 THEN x ELSE -x

ChainBuilt == pc \in {"concat_run", "concat_done"} /\ Len(durations) >= 2

\* C10 as stated: n - 1 stages, and the stage joining input j + 1 has offset
\* (d0 + ... + dj) - (j + 1) * T.
C10_ExactOffsets ==
    ChainBuilt =>
        /\ Len(xfadeOffsets) = Len(durations) - 1
        /\ \A j \in 0..(Len(durations) - 2) :
              xfadeOffsets[j + 1] * MsUnits = ExactOffset(j)

\* C10 (amended): n - 1 stages, and the offset printed for the stage joining
\* input j + 1 is (d0 + ... + dj) - (j + 1) * T rounded to the millisecond,
\* so it and the end of the timeline are less than 0.0005 s off the formula.
C10_OffsetsToTheMillisecond ==
    ChainBuilt =>
        /\ Len(xfadeOffsets) = Len(durations) - 1
        /\ \A j \in 0..(Len(durations) - 2) :
              2 * Abs(xfadeOffsets[j + 1] * MsUnits - ExactOffset(j)) < MsUnits
        /\ LET n == Len(durations)
               timelineEnd == xfadeOffsets[n - 1] * MsUnits + durations[n]
           IN 2 * Abs(timelineEnd - (DurationSum(n - 1)
                                       - (n - 1) * transitionFrames * FrameUnits)) < MsUnits

C10_Witness ==
    /\ pc = "concat_done"
    /\ Len(durations) >= 3
    /\ transitionFrames = 10
    /\ \E j \in 0..(Len(durations) - 2) : xfadeOffsets[j + 1] * MsUnits # ExactOffset(j)
    /\ \E i, j \in 1..Len(durations) : durations[i] # durations[j]


(***************************************************************************)
(* Transcription of the selected plays in the browser                      *)
(* (UnifiedPlayList.js 71-134 transcript cache, 471-619 transcribeClip,    *)
(*  handleFeedChange, handleRetranscribe, 812-910 initial load and         *)
(*  toggleSelection).  The clock counts units of 3.5 days, so the 7 days of *)
(* the cache are 2 units.  The two play keys resolve to the same clip,     *)
(* whose home feed is u1 and whose away feed is u2.                        *)
(***************************************************************************)
MaxClock == 3
MaxInFlight == 3
MaxSubmissions == 2
TTL == 2
CACHE_LIMIT == 50
EVICT_COUNT == 25
\* "transcript_" items of other videos that the browser may already hold
OtherCounts == {0, 50}

\* what /api/transcribe answers for a video when it succeeds
ProviderResult(videoUrl) ==
    IF videoUrl = "u1"
    THEN [words |-> <<[start |-> 0, end |-> 4]>>, duration |-> 4]
    ELSE [words |-> <<[start |-> 0, end |-> 4], [start |-> 6, end |-> 10]>>, duration |-> 10]

getPreferredFeed(key) == IF key = "k1" THEN "HOME" ELSE "AWAY"
getVideoUrlForFeed(key, feedType) == IF feedType = "HOME" THEN "u1" ELSE "u2"

\* JSON.stringify of a cache entry and JSON.parse of the stored string: the
\* string is the list of the members in the order they were written
Stringify(data) == <<<<"words", data.words>>, <<"duration", data.duration>>,
                     <<"timestamp", data.timestamp>>>>
Member(str, name) == (CHOOSE i \in 1..Len(str) : str[i][1] = name)
Parse(str) == [words |-> str[Member(str, "words")][2],
               duration |-> str[Member(str, "duration")][2],
               timestamp |-> str[Member(str, "timestamp")][2]]

FreshInclusive(timestamp, t) == timestamp # 0 /\ t - timestamp <= TTL

\* data.timestamp && Date.now() - data.timestamp < 7 days
Fresh(timestamp, t) == timestamp # 0 /\ t - timestamp < TTL

getCachedTranscriptNever(storage, videoUrl, t) == [data |-> <<>>, storage |-> storage]

\* getCachedTranscript(videoUrl) at time t: what it returns (<<>> is null)
\* and the storage it leaves
getCachedTranscript(storage, videoUrl, t) ==
    LET cached == storage[videoUrl] IN
    IF cached # <<>>
    THEN LET data == Parse(cached[1]) IN
         IF Fresh(data.timestamp, t)
         THEN [data |-> <<data>>, storage |-> storage]
         ELSE [data |-> <<>>, storage |-> [storage EXCEPT ![videoUrl] = <<>>]]
    ELSE [data |-> <<>>, storage |-> storage]

StoredUrls(storage) == {u \in URLs : storage[u] # <<>>}
\* Object.keys(localStorage).filter(k => k.startsWith('transcript_')).length
TranscriptKeys(storage, others) == Cardinality(StoredUrls(storage)) + others

\* cacheTranscript(videoUrl, words, duration) at time t: the storages it can
\* leave.  setItem stores the entry or throws (quota); after a throw the
\* first 25 "transcript_" keys, in the order the browser lists them, are
\* removed when there are more than 50 of them.
cacheTranscript(storage, others, videoUrl, ws, dur, t) ==
    { [storage |-> [storage EXCEPT ![videoUrl] =
                       <<Stringify([words |-> ws, duration |-> dur, timestamp |-> t])>>],
       others |-> others, stored |-> TRUE] }
    \cup
    (IF TranscriptKeys(storage, others) > CACHE_LIMIT
     THEN { [storage |-> [u \in URLs |-> IF u \in S THEN <<>> ELSE storage[u]],
             others |-> others - (EVICT_COUNT - Cardinality(S)),
             stored |-> FALSE] :
            S \in { T \in SUBSET StoredUrls(storage) :
                      /\ Cardinality(T) <= EVICT_COUNT
                      /\ EVICT_COUNT - Cardinality(T) <= others } }
     ELSE { [storage |-> storage, others |-> others, stored |-> FALSE] })

\* clearTranscriptCache(videoUrl)
clearTranscriptCache(storage, videoUrl) == [storage EXCEPT ![videoUrl] = <<>>]

\* POSTs to /api/transcribe sent so far
TotalSubmissions == submissions["u1"] + submissions["u2"]

NeverTranscribing(videoUrl) == FALSE

\* transcribingRef.current.has(videoUrl)
AlreadyTranscribing(videoUrl) == videoUrl \in transcribingRef

\* the transcriptData[key] that transcribeClip stores with a transcript
StoreTranscript(existing, ws, dur) ==
    [existing EXCEPT !.transcript = ws,
                     !.selectedWords = IF Len(existing.selectedWords) > 0
                                       THEN existing.selectedWords
                                       ELSE AllIndices(ws),
                     !.duration = dur,
                     !.isTranscribing = FALSE,
                     !.error = <<>>]

\* transcribeClip(key, videoUrl) up to its fetch, called with transcriptData td
\* and the storage the caller left
transcribeClip(td, storage, key, videoUrl) ==
    IF AlreadyTranscribing(videoUrl)
    THEN /\ transcriptData' = td
         /\ localStorage' = storage
         /\ UNCHANGED <<transcribingRef, inflight, submissions>>
    ELSE LET cached == getCachedTranscript(storage, videoUrl, now) IN
         IF cached.data # <<>>
         THEN /\ transcriptData' = [td EXCEPT ![key] =
                    StoreTranscript(@, cached.data[1].words, cached.data[1].duration)]
              /\ localStorage' = cached.storage
              /\ UNCHANGED <<transcribingRef, inflight, submissions>>
         ELSE /\ Len(inflight) < MaxInFlight
              /\ TotalSubmissions < MaxSubmissions
              /\ submissions' = [submissions EXCEPT ![videoUrl] = @ + 1]
              /\ transcribingRef' = transcribingRef \cup {videoUrl}
              /\ transcriptData' = [td EXCEPT ![key].isTranscribing = TRUE,
                                              ![key].error = <<>>]
              /\ inflight' = Append(inflight, [key |-> key, videoUrl |-> videoUrl])
              /\ localStorage' = cached.storage


RemoveAt(arr, i) == SubSeq(arr, 1, i - 1) \o SubSeq(arr, i + 1, Len(arr))

\* the feed shown for a play: tData.feedType || getPreferredFeed(ab, video)
CurrentFeed(key) ==
    IF transcriptData[key].feedType # <<>> THEN transcriptData[key].feedType[1]
    ELSE getPreferredFeed(key)

\* the state after initializeFromCacheOrKeyPlays selected the key plays and
\* before its loop calls transcribeClip for the first of them
InitTranscribe ==
    /\ now = 1
    /\ localStorage = [u \in URLs |-> <<>>]
    /\ otherTranscripts = 0
    /\ transcribingRef = {}
    /\ inflight = <<>>
    /\ toTranscribe \in {<<>>, <<"k1">>, <<"k1", "k2">>}
    /\ awaited = <<>>
    /\ submissions = [u \in URLs |-> 0]
    /\ selectedKeys = SeqRange(toTranscribe)
    /\ transcriptData = [k \in Keys |->
          IF k \in selectedKeys
          THEN [NoTranscriptData EXCEPT !.feedType = <<getPreferredFeed(k)>>]
          ELSE NoTranscriptData]
    /\ cacheCall = <<>>
    /\ IdleServer
    /\ pc = "browsing"
    /\ words = <<>>
    /\ IdleReducer
    /\ IdleEditor
    /\ IdlePath
    /\ IdleRundown
    /\ IdleConcat
    /\ IdleExt

\* one turn of "for (const { key, videoUrl } of toTranscribe) await transcribeClip"
InitialLoadNext ==
    /\ toTranscribe # <<>>
    /\ awaited = <<>>
    /\ LET key == Head(toTranscribe)
           videoUrl == getVideoUrlForFeed(key, getPreferredFeed(key))
       IN /\ transcribeClip(transcriptData, localStorage, key, videoUrl)
          /\ awaited' = IF inflight' # inflight THEN <<videoUrl>> ELSE <<>>
    /\ toTranscribe' = Tail(toTranscribe)
    /\ UNCHANGED <<extVars, assemblyVars, serverVars, cacheCall, now, otherTranscripts, selectedKeys>>

toggleSelection(key) ==
    /\ IF key \in selectedKeys
       THEN /\ selectedKeys' = selectedKeys \ {key}
            /\ UNCHANGED <<transcriptData, localStorage, transcribingRef, inflight, submissions>>
       ELSE /\ selectedKeys' = selectedKeys \cup {key}
            /\ LET preferredFeed == getPreferredFeed(key)
                   videoUrl == getVideoUrlForFeed(key, preferredFeed)
               IN IF Len(transcriptData[key].transcript) = 0
                  THEN transcribeClip(
                          [transcriptData EXCEPT ![key] =
                              [NoTranscriptData EXCEPT !.feedType = <<preferredFeed>>]],
                          localStorage, key, videoUrl)
                  ELSE UNCHANGED <<transcriptData, localStorage, transcribingRef, inflight, submissions>>
    /\ UNCHANGED <<extVars, assemblyVars, serverVars, cacheCall, now, otherTranscripts, toTranscribe, awaited>>

handleFeedChange(key, newFeedType) ==
    /\ key \in selectedKeys
    /\ newFeedType # CurrentFeed(key)
    /\ transcribeClip(
          [transcriptData EXCEPT ![key] =
              [@ EXCEPT !.feedType = <<newFeedType>>, !.transcript = <<>>,
                        !.selectedWords = <<>>, !.duration = 0,
                        !.isTranscribing = FALSE, !.error = <<>>]],
          localStorage, key, getVideoUrlForFeed(key, newFeedType))
    /\ UNCHANGED <<extVars, assemblyVars, serverVars, cacheCall, now, otherTranscripts, selectedKeys, toTranscribe, awaited>>

\* the button of the editor, shown with a transcript and enabled while the
\* play is not transcribing
handleRetranscribe(key) ==
    /\ key \in selectedKeys
    /\ Len(transcriptData[key].transcript) > 0
    /\ ~transcriptData[key].isTranscribing
    /\ LET videoUrl == getVideoUrlForFeed(key, CurrentFeed(key)) IN
       transcribeClip(
          [transcriptData EXCEPT ![key] =
              [@ EXCEPT !.transcript = <<>>, !.isTranscribing = FALSE,
                        !.error = <<>>, !.selectedWords = <<>>]],
          clearTranscriptCache(localStorage, videoUrl), key, videoUrl)
    /\ UNCHANGED <<extVars, assemblyVars, serverVars, cacheCall, now, otherTranscripts, selectedKeys, toTranscribe, awaited>>

\* the answer { success: true, words, duration } to the request inflight[i]
TranscribeSucceeds(i) ==
    /\ i \in 1..Len(inflight)
    /\ LET req == inflight[i] IN
       \E result \in {ProviderResult(req.videoUrl)} :
       \E post \in cacheTranscript(localStorage, otherTranscripts, req.videoUrl,
                                   result.words, result.duration, now) :
          /\ localStorage' = post.storage
          /\ otherTranscripts' = post.others
          /\ transcriptData' = [transcriptData EXCEPT ![req.key] =
                StoreTranscript(@, result.words, result.duration)]
          /\ transcribingRef' = transcribingRef \ {req.videoUrl}
          /\ awaited' = IF awaited = <<req.videoUrl>> THEN <<>> ELSE awaited
    /\ inflight' = RemoveAt(inflight, i)
    /\ UNCHANGED <<extVars, assemblyVars, serverVars, cacheCall, now, selectedKeys, toTranscribe, submissions>>

TranscribeFailsKeepingMarker(i) ==
    /\ i \in 1..Len(inflight)
    /\ transcriptData' = [transcriptData EXCEPT
          ![inflight[i].key].isTranscribing = FALSE,
          ![inflight[i].key].error = <<"Transcription failed">>]
    /\ awaited' = IF awaited = <<inflight[i].videoUrl>> THEN <<>> ELSE awaited
    /\ inflight' = RemoveAt(inflight, i)
    /\ UNCHANGED <<extVars, assemblyVars, serverVars, cacheCall, now, localStorage,
                   otherTranscripts, selectedKeys, toTranscribe, submissions,
                   transcribingRef>>

\* an answer without success, or a fetch that threw
TranscribeFails(i) ==
    /\ i \in 1..Len(inflight)
    /\ LET req == inflight[i] IN
          /\ transcriptData' = [transcriptData EXCEPT
                ![req.key].isTranscribing = FALSE,
                ![req.key].error = <<"Transcription failed">>]
          /\ transcribingRef' = transcribingRef \ {req.videoUrl}
          /\ awaited' = IF awaited = <<req.videoUrl>> THEN <<>> ELSE awaited
    /\ inflight' = RemoveAt(inflight, i)
    /\ UNCHANGED <<extVars, assemblyVars, serverVars, cacheCall, now, localStorage, otherTranscripts, selectedKeys,
                   toTranscribe, submissions>>

\* 3.5 days pass
Tick ==
    /\ now < MaxClock
    /\ now' = now + 1
    /\ UNCHANGED <<extVars, assemblyVars, serverVars, cacheCall, localStorage, otherTranscripts, transcribingRef,
                   inflight, transcriptData, selectedKeys, toTranscribe, awaited, submissions>>

NextTranscribe ==
    \/ InitialLoadNext
    \/ \E key \in Keys : toggleSelection(key)
    \/ \E key \in Keys, newFeedType \in FeedTypes : handleFeedChange(key, newFeedType)
    \/ \E key \in Keys : handleRetranscribe(key)
    \/ \E i \in 1..MaxInFlight : TranscribeSucceeds(i)
    \/ \E i \in 1..MaxInFlight : TranscribeFails(i)
    \/ Tick

SpecTranscribe == InitTranscribe /\ [][NextTranscribe]_vars


(***************************************************************************)
(* The transcript cache functions called on their own                      *)
(* (UnifiedPlayList.js 78-134)                                             *)
(***************************************************************************)
\* what a caller may hand to cacheTranscript
CacheInputs ==
    { [words |-> <<[start |-> 0, end |-> 4]>>, duration |-> 4],
      [words |-> <<[start |-> 0, end |-> 4], [start |-> 6, end |-> 10]>>, duration |-> 10] }

InitCache ==
    /\ now = 1
    /\ localStorage = [u \in URLs |-> <<>>]
    /\ otherTranscripts \in OtherCounts
    /\ cacheCall = <<>>
    /\ transcribingRef = {}
    /\ inflight = <<>>
    /\ transcriptData = [k \in Keys |-> NoTranscriptData]
    /\ selectedKeys = {}
    /\ toTranscribe = <<>>
    /\ awaited = <<>>
    /\ submissions = [u \in URLs |-> 0]
    /\ IdleServer
    /\ pc = "cache"
    /\ words = <<>>
    /\ IdleReducer
    /\ IdleEditor
    /\ IdlePath
    /\ IdleRundown
    /\ IdleConcat
    /\ IdleExt

CallCacheTranscript(videoUrl, input) ==
    /\ \E post \in cacheTranscript(localStorage, otherTranscripts, videoUrl,
                                   input.words, input.duration, now) :
          /\ localStorage' = post.storage
          /\ otherTranscripts' = post.others
          /\ cacheCall' = <<[op |-> "cacheTranscript", videoUrl |-> videoUrl,
                             words |-> input.words, duration |-> input.duration,
                             stored |-> post.stored]>>
    /\ UNCHANGED <<extVars, assemblyVars, serverVars, now, transcribingRef, inflight, transcriptData,
                   selectedKeys, toTranscribe, awaited, submissions>>

CallGetCachedTranscript(videoUrl) ==
    /\ LET cached == getCachedTranscript(localStorage, videoUrl, now) IN
          /\ localStorage' = cached.storage
          /\ cacheCall' = <<[op |-> "getCachedTranscript", videoUrl |-> videoUrl,
                             data |-> cached.data]>>
    /\ UNCHANGED <<extVars, assemblyVars, serverVars, now, otherTranscripts, transcribingRef, inflight,
                   transcriptData, selectedKeys, toTranscribe, awaited, submissions>>

CallClearTranscriptCache(videoUrl) ==
    /\ localStorage' = clearTranscriptCache(localStorage, videoUrl)
    /\ cacheCall' = <<[op |-> "clearTranscriptCache", videoUrl |-> videoUrl]>>
    /\ UNCHANGED <<extVars, assemblyVars, serverVars, now, otherTranscripts, transcribingRef, inflight,
                   transcriptData, selectedKeys, toTranscribe, awaited, submissions>>

NextCache ==
    \/ \E videoUrl \in URLs, input \in CacheInputs : CallCacheTranscript(videoUrl, input)
    \/ \E videoUrl \in URLs : CallGetCachedTranscript(videoUrl)
    \/ \E videoUrl \in URLs : CallClearTranscriptCache(videoUrl)
    \/ Tick

SpecCache == InitCache /\ [][NextCache]_vars


(***************************************************************************)
(* C11: whatever the order of the initial load, play selections, feed      *)
(* changes and retranscribe clicks of the play list, and whichever play    *)
(* key asks, no video URL has two requests to /api/transcribe in flight.   *)
(***************************************************************************)
InFlightFor(videoUrl) == {i \in 1..Len(inflight) : inflight[i].videoUrl = videoUrl}

C11_SingleFlight ==
    /\ \A videoUrl \in URLs : Cardinality(InFlightFor(videoUrl)) <= 1
    /\ transcribingRef = {inflight[i].videoUrl : i \in 1..Len(inflight)}

\* a request for the URL is in flight for one play while another selected
\* play, switched to the feed with the same URL, was turned away
C11_Witness ==
    \E videoUrl \in URLs, key \in Keys :
        /\ \E i \in InFlightFor(videoUrl) : inflight[i].key # key
        /\ key \in selectedKeys
        /\ transcriptData[key].feedType # <<getPreferredFeed(key)>>
        /\ getVideoUrlForFeed(key, CurrentFeed(key)) = videoUrl
        /\ transcriptData[key].transcript = <<>>
        /\ ~transcriptData[key].isTranscribing
        /\ transcriptData[key].error = <<>>


(***************************************************************************)
(* C12: once a transcript of a video URL is stored, a later request for    *)
(* the URL made less than 7 days after the timestamp of the entry shows    *)
(* the stored words and sends nothing to /api/transcribe; a request made   *)
(* 7 days or more after it sends a new request, and the entry written for  *)
(* the answer carries the time of that write.                              *)
(***************************************************************************)
\* the step is a call transcribeClip(key, videoUrl) of the initial load, of
\* a play selection or of a feed change
RequestsClip(key, videoUrl) ==
    \/ /\ toTranscribe # <<>>
       /\ Head(toTranscribe) = key
       /\ getVideoUrlForFeed(key, getPreferredFeed(key)) = videoUrl
       /\ InitialLoadNext
    \/ /\ key \notin selectedKeys
       /\ Len(transcriptData[key].transcript) = 0
       /\ getVideoUrlForFeed(key, getPreferredFeed(key)) = videoUrl
       /\ toggleSelection(key)
    \/ \E newFeedType \in FeedTypes :
          /\ getVideoUrlForFeed(key, newFeedType) = videoUrl
          /\ handleFeedChange(key, newFeedType)

C12_CacheHitSuppressesProvider ==
    [][ /\ \A key \in Keys, videoUrl \in URLs :
            (RequestsClip(key, videoUrl) /\ localStorage[videoUrl] # <<>>) =>
                LET entry == Parse(localStorage[videoUrl][1]) IN
                IF now - entry.timestamp < TTL
                THEN /\ submissions' = submissions
                     /\ inflight' = inflight
                     /\ localStorage' = localStorage
                     /\ transcriptData'[key].transcript = entry.words
                     /\ transcriptData'[key].duration = entry.duration
                ELSE /\ submissions' = [submissions EXCEPT ![videoUrl] = @ + 1]
                     /\ inflight' = Append(inflight, [key |-> key, videoUrl |-> videoUrl])
        /\ \A videoUrl \in URLs :
            (localStorage'[videoUrl] # <<>> /\ localStorage'[videoUrl] # localStorage[videoUrl]) =>
                Parse(localStorage'[videoUrl][1]).timestamp = now
      ]_vars

\* one request was sent for the URL, and both plays show its transcript: the
\* second play was served from the cache
C12_Witness ==
    \E videoUrl \in URLs :
        /\ submissions[videoUrl] = 1
        /\ localStorage[videoUrl] # <<>>
        /\ \A key \in Keys :
              /\ getVideoUrlForFeed(key, CurrentFeed(key)) = videoUrl
              /\ transcriptData[key].feedType # <<>>
              /\ transcriptData[key].transcript = Parse(localStorage[videoUrl][1]).words


(***************************************************************************)
(* C13: after cacheTranscript(url, words, duration) stored its entry,      *)
(* getCachedTranscript(url) returns exactly those words and that duration  *)
(* at every time less than 7 days later, and returns null and removes the  *)
(* entry at every time 7 days or more later; storing and looking up one    *)
(* URL leave the entries of the other URLs as they are.                    *)
(***************************************************************************)
OthersKept(videoUrl, before, after) ==
    \A other \in URLs \ {videoUrl} : after[other] = before[other]

C13_CacheRoundTrip ==
    [][ /\ \A videoUrl \in URLs, input \in CacheInputs :
            (CallCacheTranscript(videoUrl, input) /\ cacheCall'[1].stored) =>
                /\ OthersKept(videoUrl, localStorage, localStorage')
                /\ \A t \in now..(now + TTL + 1) :
                      LET got == getCachedTranscript(localStorage', videoUrl, t) IN
                      IF t - now < TTL
                      THEN /\ got.data # <<>>
                           /\ got.data[1].words = input.words
                           /\ got.data[1].duration = input.duration
                           /\ got.storage = localStorage'
                      ELSE /\ got.data = <<>>
                           /\ got.storage[videoUrl] = <<>>
                           /\ OthersKept(videoUrl, localStorage', got.storage)
        /\ \A videoUrl \in URLs :
            CallGetCachedTranscript(videoUrl) =>
                /\ OthersKept(videoUrl, localStorage, localStorage')
                /\ cacheCall'[1].data = <<>> => localStorage'[videoUrl] = <<>>
      ]_vars

\* a lookup, made later than the entry was written and with an entry of the
\* other URL in the storage, returned the entry
C13_Witness ==
    /\ cacheCall # <<>>
    /\ cacheCall[1].op = "getCachedTranscript"
    /\ cacheCall[1].data # <<>>
    /\ cacheCall[1].data[1].timestamp < now
    /\ \A videoUrl \in URLs : localStorage[videoUrl] # <<>>


(***************************************************************************)
(* C14: a call of cacheTranscript that finds more than 50 transcript       *)
(* entries removes about half of them and keeps the entry it writes, so    *)
(* the number of entries does not keep growing.                            *)
(***************************************************************************)
C14_CacheSizeBounded ==
    [][ \A videoUrl \in URLs, input \in CacheInputs :
           (/\ CallCacheTranscript(videoUrl, input)
            /\ TranscriptKeys(localStorage, otherTranscripts) > CACHE_LIMIT) =>
               /\ TranscriptKeys(localStorage', otherTranscripts')
                     <= TranscriptKeys(localStorage, otherTranscripts) - EVICT_COUNT + 1
               /\ localStorage'[videoUrl] # <<>>
               /\ Parse(localStorage'[videoUrl][1]).words = input.words
      ]_vars


(***************************************************************************)
(* POST /api/transcribe on the server                                      *)
(* (api/transcribe/route.js 12-69, transcription.js 10, 21-98, 108-272,    *)
(*  312-319).  Two requests run concurrently; each awaited call is a step. *)
(***************************************************************************)
VideoPath(r) == <<"videos", r>>
AudioPath(r) == <<"audio", r>>

\* fs.writeFile(path) and the output file of ffmpeg -y, and fs.unlink(path)
WriteFile(files, path, r) == {f \in files : f.path # path} \cup {[path |-> path, by |-> r]}
Unlink(files, path) == {f \in files : f.path # path}

InitTranscribeRoute ==
    /\ hasElevenLabsKey \in BOOLEAN
    /\ routePc = [r \in Requests |-> "idle"]
    /\ providerOutcome = [r \in Requests |-> NoProvider]
    /\ routeResponse = [r \in Requests |-> <<>>]
    /\ disk = {}
    /\ IdleRuns
    /\ IdleTranscribe
    /\ cacheCall = <<>>
    /\ pc = "serving"
    /\ words = <<>>
    /\ IdleReducer
    /\ IdleEditor
    /\ IdlePath
    /\ IdleRundown
    /\ IdleConcat
    /\ IdleExt

\* the catch and the finally of POST after a throw inside transcribeVideo:
\* videoPath and audioPath are still null, nothing is unlinked
TranscriptionFailed(r) ==
    /\ routeResponse' = [routeResponse EXCEPT ![r] =
          <<[status |-> 500, error |-> "Transcription failed"]>>]
    /\ routePc' = [routePc EXCEPT ![r] = "responded"]

ReceiveTranscribe(r) ==
    /\ routePc[r] = "idle"
    /\ \E hasVideoUrl \in BOOLEAN :
          IF hasVideoUrl
          THEN /\ routePc' = [routePc EXCEPT ![r] = "downloadVideo"]
               /\ UNCHANGED routeResponse
          ELSE /\ routeResponse' = [routeResponse EXCEPT ![r] =
                     <<[status |-> 400, error |-> "videoUrl is required"]>>]
               /\ routePc' = [routePc EXCEPT ![r] = "responded"]
    /\ UNCHANGED <<extVars, assemblyVars, clientVars, runVars, hasElevenLabsKey, providerOutcome, disk>>

\* downloadVideo(url) of transcription.js
DownloadForTranscription(r) ==
    /\ routePc[r] = "downloadVideo"
    /\ \E ok \in BOOLEAN :
          IF ok
          THEN /\ disk' = WriteFile(disk, VideoPath(r), r)
               /\ routePc' = [routePc EXCEPT ![r] = "extractAudio"]
               /\ UNCHANGED routeResponse
          ELSE /\ TranscriptionFailed(r)
               /\ UNCHANGED disk
    /\ UNCHANGED <<extVars, assemblyVars, clientVars, runVars, hasElevenLabsKey, providerOutcome>>

extractAudio(r) ==
    /\ routePc[r] = "extractAudio"
    /\ \E ok \in BOOLEAN :
          IF ok
          THEN /\ disk' = WriteFile(disk, AudioPath(r), r)
               /\ routePc' = [routePc EXCEPT ![r] = "transcribeAudio"]
               /\ UNCHANGED routeResponse
          ELSE /\ TranscriptionFailed(r)
               /\ UNCHANGED disk
    /\ UNCHANGED <<extVars, assemblyVars, clientVars, runVars, hasElevenLabsKey, providerOutcome>>

\* the provider transcribeAudio calls: its result is returned as it is
OnlyProvider(hasKey) == IF hasKey THEN "elevenlabs" ELSE "gemini"

transcribeAudio(r) ==
    /\ routePc[r] = "transcribeAudio"
    /\ LET provider == OnlyProvider(hasElevenLabsKey) IN
       \E ok \in BOOLEAN :
          /\ providerOutcome' = [providerOutcome EXCEPT ![r][provider] =
                                    IF ok THEN "succeeded" ELSE "failed"]
          /\ IF ok
             THEN /\ routePc' = [routePc EXCEPT ![r] = "transcribed"]
                  /\ UNCHANGED routeResponse
             ELSE TranscriptionFailed(r)
    /\ UNCHANGED <<extVars, assemblyVars, clientVars, runVars, hasElevenLabsKey, disk>>

\* transcribeVideo returned: the response and cleanupTranscriptionFiles
RespondTranscribed(r) ==
    /\ routePc[r] = "transcribed"
    /\ routeResponse' = [routeResponse EXCEPT ![r] = <<[status |-> 200, success |-> TRUE]>>]
    /\ disk' = Unlink(Unlink(disk, VideoPath(r)), AudioPath(r))
    /\ routePc' = [routePc EXCEPT ![r] = "responded"]
    /\ UNCHANGED <<extVars, assemblyVars, clientVars, runVars, hasElevenLabsKey, providerOutcome>>

NextTranscribeRoute ==
    \E r \in Requests :
        \/ ReceiveTranscribe(r)
        \/ DownloadForTranscription(r)
        \/ extractAudio(r)
        \/ transcribeAudio(r)
        \/ RespondTranscribed(r)

SpecTranscribeRoute == InitTranscribeRoute /\ [][NextTranscribeRoute]_vars

(***************************************************************************)
(* C15: when the ElevenLabs key is configured and ElevenLabs reports a     *)
(* failure, Gemini is asked for the same audio; a transcription fails only *)
(* when both providers failed (Gemini alone when no key is configured).    *)
(***************************************************************************)
C15_FallbackOnPrimaryFailure ==
    \A r \in Requests :
        /\ (hasElevenLabsKey /\ providerOutcome[r]["elevenlabs"] = "failed")
              => providerOutcome[r]["gemini"] # "not invoked"
        /\ (routePc[r] = "responded" /\ routeResponse[r][1].status = 500
              /\ providerOutcome[r] # NoProvider)
              => /\ providerOutcome[r]["gemini"] = "failed"
                 /\ hasElevenLabsKey => providerOutcome[r]["elevenlabs"] = "failed"


(***************************************************************************)
(* Concurrent runs of POST /api/generate-rundown-video with their temp     *)
(* files (api/generate-rundown-video/route.js 12-106, video-processor.js   *)
(* 14-48 downloadVideo, 86-110 concatenateVideosSimple, 593-649            *)
(* trimToSegments, 659-748 createRundownVideo).  Every awaited call is a   *)
(* step of its run, so the other run can act between two of them.  A path  *)
(* is <<directory below os.tmpdir()/mlb-highlights, name, index>>.         *)
(***************************************************************************)
\* a clip of the request: a transition (whose file in innings/ exists or
\* not) or a play whose selection reduces to 0, 1 or 2 intervals
Transition(exists) == [isTransition |-> TRUE, exists |-> exists, segments |-> 0]
Play(n) == [isTransition |-> FALSE, exists |-> TRUE, segments |-> n]
RunClipLists ==
    { <<Play(1)>>, <<Play(2)>>, <<Transition(TRUE), Play(1)>>,
      <<Transition(FALSE), Play(0), Play(1)>> }

ClipDownloadPath(i) == <<"", "clip", i>>
TitleCardSource == <<"", "title-card-source", 0>>
SegmentPath(j) == <<"segments", "segment", j>>
TempPath(gamePk, name, i) == <<gamePk, name, i>>
InningsPath(i) == <<"innings", "transition", i>>
IsTemp(path) == path[1] # "innings"

Exists(path) == \E f \in disk : f.path = path
WriterOf(path) == (CHOOSE f \in disk : f.path = path).by
ReadLog(r, paths) ==
    {[run |-> r, op |-> "read", path |-> path, by |-> WriterOf(path)] :
        path \in {q \in paths : Exists(q)}}
WriteLog(r, paths) ==
    {[run |-> r, op |-> "write", path |-> path, by |-> r] : path \in paths}
\* the outcomes of a call that reads the paths: it fails when one is missing
Outcomes(paths) == IF \A path \in paths : Exists(path) THEN BOOLEAN ELSE {FALSE}
UnlinkAll(files, paths) == {f \in files : f.path \notin paths}

\* route.js 29-72: the clips that are handed to createRundownVideo
RECURSIVE RouteClips(_, _)
RouteClips(clips, from) ==
    IF clips = <<>> THEN <<>>
    ELSE LET clip == Head(clips)
             kept == IF clip.isTransition THEN clip.exists ELSE clip.segments > 0
         IN (IF kept THEN <<[isTransition |-> clip.isTransition,
                              segments |-> clip.segments, from |-> from]>>
             ELSE <<>>)
            \o RouteClips(Tail(clips), from + 1)

InitRuns ==
    /\ runs \in [RunIds -> {[IdleRun EXCEPT !.pc = "post", !.gamePk = g,
                                           !.titleCardUrl = t, !.clips = c] :
                              g \in GamePks, t \in BOOLEAN, c \in RunClipLists}]
    /\ runs[1].gamePk = "g1"
    /\ disk = {}
    /\ ioLog = {}
    /\ IdleRoute
    /\ IdleTranscribe
    /\ cacheCall = <<>>
    /\ pc = "serving"
    /\ words = <<>>
    /\ IdleReducer
    /\ IdleEditor
    /\ IdlePath
    /\ IdleRundown
    /\ IdleConcat
    /\ IdleExt

Respond(run, response) == [run EXCEPT !.pc = "done", !.response = <<response>>]
Failed(run, details) ==
    Respond(run, [status |-> 500, error |-> "Video generation failed", details |-> details])

\* POST up to the call of createRundownVideo
PostRundown(r) ==
    /\ runs[r].pc = "post"
    /\ LET cws == RouteClips(runs[r].clips, 0) IN
       IF \A n \in 1..Len(cws) : cws[n].isTransition
       THEN runs' = [runs EXCEPT ![r] =
               Respond(@, [status |-> 400, error |-> "No clips with valid segments"])]
       ELSE runs' = [runs EXCEPT ![r] =
               [@ EXCEPT !.clipsWithSegments = cws,
                         !.pc = IF runs[r].titleCardUrl THEN "title_download" ELSE "loop"]]
    /\ UNCHANGED <<extVars, assemblyVars, clientVars, routeVars, disk, ioLog>>

\* downloadVideo(titleCardUrl, 'title-card-source.mp4')
TitleDownload(r) ==
    /\ runs[r].pc = "title_download"
    /\ \E ok \in BOOLEAN :
          IF ok
          THEN /\ disk' = WriteFile(disk, TitleCardSource, r)
               /\ ioLog' = ioLog \cup WriteLog(r, {TitleCardSource})
               /\ runs' = [runs EXCEPT ![r].pc = "title_encode"]
          ELSE /\ runs' = [runs EXCEPT ![r].pc = "loop"]
               /\ UNCHANGED <<disk, ioLog>>
    /\ UNCHANGED <<extVars, assemblyVars, clientVars, routeVars>>

\* ffmpeg of the first 1.5 s into title-card.mp4, the two pushes and the unlink
TitleEncode(r) ==
    /\ runs[r].pc = "title_encode"
    /\ LET titleCardPath == TempPath(runs[r].gamePk, "title-card", 0) IN
       \E ok \in Outcomes({TitleCardSource}) :
          /\ ioLog' = ioLog \cup ReadLog(r, {TitleCardSource})
                            \cup (IF ok THEN WriteLog(r, {titleCardPath}) ELSE {})
          /\ IF ok
             THEN /\ disk' = Unlink(WriteFile(disk, titleCardPath, r), TitleCardSource)
                  /\ runs' = [runs EXCEPT ![r] =
                        [@ EXCEPT !.trimmedPaths = Push(@, titleCardPath),
                                  !.filesToCleanup = Push(@, titleCardPath),
                                  !.pc = "loop"]]
             ELSE /\ runs' = [runs EXCEPT ![r].pc = "loop"]
                  /\ UNCHANGED disk
    /\ UNCHANGED <<extVars, assemblyVars, clientVars, routeVars>>


\* the head of the for loop of createRundownVideo: a transition is pushed,
\* a play goes to its download; after the last clip the length test
LoopStep(r) ==
    /\ runs[r].pc = "loop"
    /\ LET run == runs[r]
           items == run.clipsWithSegments
       IN IF run.i >= Len(items)
          THEN IF Len(run.trimmedPaths) = 0
               THEN runs' = [runs EXCEPT ![r] = Failed(@, "No clips could be processed")]
               ELSE runs' = [runs EXCEPT ![r].pc = "concatenateVideos"]
          ELSE IF items[run.i + 1].isTransition
               THEN runs' = [runs EXCEPT ![r] =
                       [@ EXCEPT !.trimmedPaths = Push(@, InningsPath(run.i)),
                                 !.i = @ + 1]]
               ELSE runs' = [runs EXCEPT ![r].pc = "downloadVideo"]
    /\ UNCHANGED <<extVars, assemblyVars, clientVars, routeVars, disk, ioLog>>

\* the catch of the loop body: the next clip
NextClip(run) == [run EXCEPT !.i = @ + 1, !.j = 0, !.pc = "loop"]

\* trimToSegments returned: the pushes and the unlink of the download
Trimmed(run, trimmedPath) ==
    [NextClip(run) EXCEPT !.trimmedPaths = Push(@, trimmedPath),
                          !.filesToCleanup = Push(@, trimmedPath)]

\* downloadVideo(videoUrl, `clip-${i}.mp4`)
ClipDownload(r) ==
    /\ runs[r].pc = "downloadVideo"
    /\ LET downloadedPath == ClipDownloadPath(runs[r].i) IN
       \E ok \in BOOLEAN :
          IF ok
          THEN /\ disk' = WriteFile(disk, downloadedPath, r)
               /\ ioLog' = ioLog \cup WriteLog(r, {downloadedPath})
               /\ runs' = [runs EXCEPT ![r].pc = "trimToSegments"]
          ELSE /\ runs' = [runs EXCEPT ![r] = NextClip(@)]
               /\ UNCHANGED <<disk, ioLog>>
    /\ UNCHANGED <<extVars, assemblyVars, clientVars, routeVars>>

\* trimToSegments: the one ffmpeg of a single segment, or the ffmpeg of
\* segment j of several
TrimStep(r) ==
    /\ runs[r].pc = "trimToSegments"
    /\ LET run == runs[r]
           downloadedPath == ClipDownloadPath(run.i)
           trimmedPath == TempPath(run.gamePk, "trimmed", run.i)
           single == run.clipsWithSegments[run.i + 1].segments = 1
           output == IF single THEN trimmedPath ELSE SegmentPath(run.j)
       IN \E ok \in Outcomes({downloadedPath}) :
             /\ ioLog' = ioLog \cup ReadLog(r, {downloadedPath})
                               \cup (IF ok THEN WriteLog(r, {output}) ELSE {})
             /\ IF ~ok
                THEN /\ runs' = [runs EXCEPT ![r] = NextClip(@)]
                     /\ UNCHANGED disk
                ELSE IF single
                THEN /\ disk' = Unlink(WriteFile(disk, output, r), downloadedPath)
                     /\ runs' = [runs EXCEPT ![r] = Trimmed(@, trimmedPath)]
                ELSE /\ disk' = WriteFile(disk, output, r)
                     /\ runs' = [runs EXCEPT ![r] =
                           [@ EXCEPT !.j = @ + 1,
                                     !.pc = IF run.j + 1 < run.clipsWithSegments[run.i + 1].segments
                                            THEN "trimToSegments"
                                            ELSE "concatenateVideosSimple"]]
    /\ UNCHANGED <<extVars, assemblyVars, clientVars, routeVars>>

\* concatenateVideosSimple(segmentPaths, outputPath) and the rest of
\* trimToSegments: the list file, the ffmpeg, the unlinks
SegmentsConcat(r) ==
    /\ runs[r].pc = "concatenateVideosSimple"
    /\ LET run == runs[r]
           downloadedPath == ClipDownloadPath(run.i)
           trimmedPath == TempPath(run.gamePk, "trimmed", run.i)
           listPath == TempPath(run.gamePk, "concat-list", 0)
           segmentPaths == {SegmentPath(j) : j \in 0..(run.j - 1)}
       IN \E ok \in Outcomes(segmentPaths) :
             /\ ioLog' = ioLog \cup WriteLog(r, {listPath}) \cup ReadLog(r, segmentPaths)
                               \cup (IF ok THEN WriteLog(r, {trimmedPath}) ELSE {})
             /\ IF ok
                THEN /\ disk' = UnlinkAll(WriteFile(disk, trimmedPath, r),
                                          segmentPaths \cup {listPath, downloadedPath})
                     /\ runs' = [runs EXCEPT ![r] = Trimmed(@, trimmedPath)]
                ELSE /\ disk' = WriteFile(disk, listPath, r)
                     /\ runs' = [runs EXCEPT ![r] = NextClip(@)]
    /\ UNCHANGED <<extVars, assemblyVars, clientVars, routeVars>>

\* concatenateVideos(trimmedPaths, finalPath)
Concatenate(r) ==
    /\ runs[r].pc = "concatenateVideos"
    /\ LET run == runs[r]
           finalPath == TempPath(run.gamePk, "rundown", 0)
           inputs == {path \in SeqRange(run.trimmedPaths) : IsTemp(path)}
       IN \E ok \in Outcomes(inputs) :
             /\ ioLog' = ioLog \cup ReadLog(r, inputs)
                               \cup (IF ok THEN WriteLog(r, {finalPath}) ELSE {})
             /\ IF ok
                THEN /\ disk' = WriteFile(disk, finalPath, r)
                     /\ runs' = [runs EXCEPT ![r].pc = "cleanup"]
                ELSE /\ runs' = [runs EXCEPT ![r] = Failed(@, "FFmpeg failed")]
                     /\ UNCHANGED disk
    /\ UNCHANGED <<extVars, assemblyVars, clientVars, routeVars>>

\* the unlinks of filesToCleanup; createRundownVideo returns finalPath
Cleanup(r) ==
    /\ runs[r].pc = "cleanup"
    /\ disk' = UnlinkAll(disk, SeqRange(runs[r].filesToCleanup))
    /\ runs' = [runs EXCEPT ![r].pc = "readFile"]
    /\ UNCHANGED <<extVars, assemblyVars, clientVars, routeVars, ioLog>>

\* route.js 85-99: the video is read, unlinked and returned
ReadFinal(r) ==
    /\ runs[r].pc = "readFile"
    /\ LET run == runs[r]
           videoPath == TempPath(run.gamePk, "rundown", 0)
       IN /\ ioLog' = ioLog \cup ReadLog(r, {videoPath})
          /\ IF Exists(videoPath)
             THEN /\ runs' = [runs EXCEPT ![r] =
                        Respond(@, [status |-> 200, success |-> TRUE, gamePk |-> run.gamePk,
                                    clipCount |-> Len(run.clipsWithSegments),
                                    videoUrl |-> WriterOf(videoPath)])]
                  /\ disk' = Unlink(disk, videoPath)
             ELSE /\ runs' = [runs EXCEPT ![r] = Failed(@, "ENOENT")]
                  /\ UNCHANGED disk
    /\ UNCHANGED <<extVars, assemblyVars, clientVars, routeVars>>

NextRuns ==
    \E r \in RunIds :
        \/ PostRundown(r)
        \/ TitleDownload(r)
        \/ TitleEncode(r)
        \/ LoopStep(r)
        \/ ClipDownload(r)
        \/ TrimStep(r)
        \/ SegmentsConcat(r)
        \/ Concatenate(r)
        \/ Cleanup(r)
        \/ ReadFinal(r)

SpecRuns == InitRuns /\ [][NextRuns]_vars


(***************************************************************************)
(* C16: two concurrent runs, of different games or of the same game, never *)
(* read or write the same temp file path, and every temp file a run reads  *)
(* was written by that run.                                                *)
(***************************************************************************)
C16_RunIsolation ==
    /\ \A a \in ioLog, b \in ioLog : a.path = b.path => a.run = b.run
    /\ \A e \in ioLog : e.op = "read" => e.by = e.run


(***************************************************************************)
(* C17: when a run has ended, with a video or with an error at any stage,  *)
(* no temp file that the run created is left.                              *)
(***************************************************************************)
Ended(r) == runs[r].pc = "done"

C17_NoTempFilesAfterRun ==
    \A r \in RunIds : Ended(r) => ~(\E f \in disk : f.by = r)

(***************************************************************************)
(* C18: a run in which every play failed, in its download or in its trim,  *)
(* ends with an error and returns no video, also when a title card or      *)
(* transitions were added.                                                 *)
(***************************************************************************)
ReturnedVideo(r) == Ended(r) /\ runs[r].response[1].status = 200
SurvivingPlays(r) ==
    {n \in 1..Len(runs[r].trimmedPaths) : runs[r].trimmedPaths[n][2] = "trimmed"}

C18_NoOutputWithoutSurvivingPlay ==
    \A r \in RunIds : ReturnedVideo(r) => SurvivingPlays(r) # {}

(***************************************************************************)
(* C19: the items left out of the video (a transition whose file is        *)
(* missing, a play without intervals, a play whose download or trim        *)
(* failed) are reported in the result of the run: two runs of the same     *)
(* request that return the same result, the video aside, left out the same *)
(* items.                                                                  *)
(***************************************************************************)
\* the path a clip of clipsWithSegments has in trimmedPaths
PlacedPath(r, i) ==
    IF runs[r].clipsWithSegments[i + 1].isTransition THEN InningsPath(i)
    ELSE TempPath(runs[r].gamePk, "trimmed", i)
\* indices, in the request, of the clips that are in the video
Included(r) ==
    {runs[r].clipsWithSegments[n].from :
        n \in {m \in 1..Len(runs[r].clipsWithSegments) :
                  Includes(runs[r].trimmedPaths, PlacedPath(r, m - 1))}}
Excluded(r) == (0..(Len(runs[r].clips) - 1)) \ Included(r)
\* what the caller gets besides the video
ResultSeen(r) ==
    [status |-> runs[r].response[1].status, gamePk |-> runs[r].response[1].gamePk,
     clipCount |-> runs[r].response[1].clipCount]

C19_ExcludedItemsReported ==
    \A a \in RunIds, b \in RunIds :
        (/\ ReturnedVideo(a) /\ ReturnedVideo(b)
         /\ runs[a].clips = runs[b].clips
         /\ runs[a].titleCardUrl = runs[b].titleCardUrl
         /\ ResultSeen(a) = ResultSeen(b))
        => Excluded(a) = Excluded(b)


(***************************************************************************)
(* Selection validation of the rundown route                               *)
(* (api/generate-rundown-video/route.js 12-80, transcription.js 368-410)   *)
(***************************************************************************)
InTranscript(clip) ==
    \A k \in 1..Len(clip.selectedWords) :
        clip.selectedWords[k] \in 0..(Len(clip.transcript) - 1)

\* C20: a request in which some play's selection names an index that is not
\* an index of that clip's transcript never reaches video assembly: the
\* route rejects it before any media work.
C20_OutOfRangeSelectionRejected ==
    pc = "assembling" => \A k \in 1..Len(request) : InTranscript(request[k])


(***************************************************************************)
(* Resolution of transition keys                                           *)
(* (api/generate-rundown-video/route.js 36-80,                             *)
(*  api/inning-transition/[inning]/route.js 14-23,                         *)
(*  video-processor.js 692-734)                                            *)
(* A path is the sequence of its components; a transition key is the       *)
(* sequence of the components between its '/' characters, the last one     *)
(* getting the suffix .mp4.                                                *)
(***************************************************************************)
Name(half, inning) == [half |-> half, inning |-> inning]
DotDot == Name("..", 0)
Cwd == <<Name("app", 0)>>
InningsDir == Cwd \o <<Name("innings", 0)>>
PlayTrimmed(i) == <<Name("tmp", 0), Name("trimmed", i)>>

\* /^(top|bot)-[1-9]$/.test(inning)
validPattern(key) ==
    /\ Len(key) = 1
    /\ key[1].half \in {"top", "bot"}
    /\ key[1].inning \in 1..9

\* path.normalize of an absolute path: '..' removes the component before it
RECURSIVE Normalize(_, _)
Normalize(done, rest) ==
    IF rest = <<>> THEN done
    ELSE IF Head(rest) = DotDot
         THEN Normalize(IF done = <<>> THEN <<>> ELSE SubSeq(done, 1, Len(done) - 1),
                        Tail(rest))
         ELSE Normalize(Append(done, Head(rest)), Tail(rest))

\* path.join(process.cwd(), 'innings', `${key}.mp4`): the suffix makes the
\* last component a file name, never '..'
JoinInnings(key) ==
    Normalize(<<>>, InningsDir \o SubSeq(key, 1, Len(key) - 1)) \o <<key[Len(key)]>>

RequestKeys ==
    { <<Name("top", 1)>>, <<Name("bot", 9)>>, <<Name("top", 10)>>, <<Name("mid", 3)>>,
      <<DotDot, Name("secret", 0)>>, <<DotDot, Name("innings", 0), Name("top", 1)>> }

TransitionFiles ==
    { InningsDir \o <<Name("top", 1)>>, InningsDir \o <<Name("mid", 3)>>,
      Cwd \o <<Name("secret", 0)>> }

KeyedClips ==
    {[isTransition |-> TRUE, transitionKey |-> k, segments |-> 0] : k \in RequestKeys}
    \cup {[isTransition |-> FALSE, transitionKey |-> <<>>, segments |-> 1]}

InitTransitions ==
    /\ pc = "route_loop"
    /\ \E c1, c2 \in KeyedClips : request \in {<<c1>>, <<c1, c2>>, <<c2, c1, c2>>}
    /\ disk \in SUBSET TransitionFiles
    /\ clipsWithSegments = <<>>
    /\ generationError = <<>>
    /\ tData = NoTData
    /\ drag = NoDrag
    /\ words = <<>>
    /\ IdleReducer
    /\ IdleEditor
    /\ IdleRundown
    /\ IdleConcat
    /\ IdleTranscribe
    /\ cacheCall = <<>>
    /\ IdleRoute
    /\ IdleRuns
    /\ IdleExt

\* one turn of the loop of POST over clips (route.js 39-72)
ResolveClip ==
    /\ pc = "route_loop"
    /\ clipIndex < Len(request)
    /\ LET clip == request[clipIndex + 1] IN
       clipsWithSegments' =
           IF clip.isTransition
           THEN LET transitionPath == JoinInnings(clip.transitionKey) IN
                IF transitionPath \in disk
                THEN Push(clipsWithSegments,
                          [isTransition |-> TRUE, transitionPath |-> transitionPath])
                ELSE clipsWithSegments
           ELSE Push(clipsWithSegments, [isTransition |-> FALSE, transitionPath |-> <<>>])
    /\ clipIndex' = clipIndex + 1
    /\ UNCHANGED <<restVars, pc, words, reducerVars, editorVars, tData, drag, request,
                   generationError, clipsWithSelections, titleCardUrl, trimmedPaths,
                   filesToCleanup, outcomes, concatInputs, concatVars>>

\* the test after the loop and the call of createRundownVideo (route.js 74-83)
HandToAssembler ==
    /\ pc = "route_loop"
    /\ clipIndex = Len(request)
    /\ IF \A n \in 1..Len(clipsWithSegments) : clipsWithSegments[n].isTransition
       THEN /\ generationError' = <<"No clips with valid segments">>
            /\ pc' = "generation_failed"
            /\ clipsWithSelections' = clipsWithSelections
       ELSE /\ generationError' = generationError
            /\ pc' = "assembler_loop"
            /\ clipsWithSelections' = clipsWithSegments
    /\ clipIndex' = 0
    /\ UNCHANGED <<restVars, words, reducerVars, editorVars, tData, drag, request,
                   clipsWithSegments, titleCardUrl, trimmedPaths, filesToCleanup,
                   outcomes, concatInputs, concatVars>>

\* one turn of the loop of createRundownVideo (video-processor.js 692-732):
\* a transition is placed as it is, a play is placed when its download and
\* trim succeed
PlaceClip ==
    /\ pc = "assembler_loop"
    /\ clipIndex < Len(clipsWithSelections)
    /\ LET clip == clipsWithSelections[clipIndex + 1] IN
       IF clip.isTransition
       THEN trimmedPaths' = IF clip.transitionPath \in disk
                            THEN Push(trimmedPaths, clip.transitionPath)
                            ELSE trimmedPaths
       ELSE \E processed \in BOOLEAN :
               trimmedPaths' = IF processed
                               THEN Push(trimmedPaths, PlayTrimmed(clipIndex))
                               ELSE trimmedPaths
    /\ clipIndex' = clipIndex + 1
    /\ UNCHANGED <<restVars, pc, words, reducerVars, editorVars, pathVars,
                   clipsWithSelections, titleCardUrl, filesToCleanup, outcomes,
                   concatInputs, concatVars>>

\* the end of the loop: the placed files go to concatenateVideos (734-740)
ConcatenatePlaced ==
    /\ pc = "assembler_loop"
    /\ clipIndex = Len(clipsWithSelections)
    /\ IF Len(trimmedPaths) = 0
       THEN /\ pc' = "generation_failed"
            /\ concatInputs' = concatInputs
       ELSE /\ pc' = "assembled"
            /\ concatInputs' = trimmedPaths
    /\ UNCHANGED <<restVars, words, reducerVars, editorVars, pathVars,
                   clipsWithSelections, titleCardUrl, clipIndex, trimmedPaths,
                   filesToCleanup, outcomes, concatVars>>

NextTransitions ==
    \/ ResolveClip
    \/ HandToAssembler
    \/ PlaceClip
    \/ ConcatenatePlaced

SpecTransitions == InitTransitions /\ [][NextTransitions]_vars

InTransitionsDir(path) ==
    /\ Len(path) = Len(InningsDir) + 1
    /\ SubSeq(path, 1, Len(InningsDir)) = InningsDir
    /\ validPattern(<<path[Len(path)]>>)

\* C21: every file the assembler is given for a transition is
\* <transitions dir>/<half>-<inning>.mp4 with half top or bot and inning 1..9;
\* no key makes a file outside that directory part of the output.
C21_TransitionsStayInDirectory ==
    \A n \in 1..Len(concatInputs) :
        (\A i \in 0..Len(request) : concatInputs[n] # PlayTrimmed(i))
            => InTransitionsDir(concatInputs[n])


(***************************************************************************)
(* createSyncedPackage, steps 1 and 2 (video-processor.js 365-420) after   *)
(* analyzeClips (gemini-video.js 127-159). Times are counted in 1/3000 s,  *)
(* as in concatenateVideos; a field that is undefined in JavaScript is 0.  *)
(***************************************************************************)
MaxSyncedClips == 3
SecondUnits == 3000
SYNC_BUFFER == 4500

\* a || b on numbers
OrElse(a, b) == IF a = 0 THEN b ELSE a

\* the analysis of analyzeClips: Gemini's timing, or the record of its catch
Analysis(s, p, e) ==
    [analyzed |-> TRUE, action_start_seconds |-> s, action_peak_seconds |-> p,
     action_end_seconds |-> e]
NotAnalyzed ==
    [analyzed |-> FALSE, action_start_seconds |-> 0, action_peak_seconds |-> 0,
     action_end_seconds |-> 0]
Analyses == {NotAnalyzed, Analysis(6000, 9000, 12000), Analysis(15000, 16500, 24000)}
ProbedDurations == {24000, 30000}

SyncedClips(id) ==
    {[id |-> id, videoUrl |-> u, analysis |-> a, clipDuration |-> d] :
        u \in BOOLEAN, a \in Analyses, d \in ProbedDurations}

InitSynced ==
    /\ pc = "synced_loop"
    /\ \E n \in 1..MaxSyncedClips :
          clipsWithAnalysis \in {q \in [1..n -> UNION {SyncedClips(id) : id \in 1..n}] :
                                    \A i \in 1..n : q[i].id = i}
    /\ processedClips = <<>>
    /\ syncedTotalDuration = 0
    /\ clipIndex = 0
    /\ durations = <<>>
    /\ transitionFrames = 10
    /\ cumulativeDuration = 0
    /\ xfadeOffsets = <<>>
    /\ clipsWithSelections = <<>>
    /\ titleCardUrl = FALSE
    /\ trimmedPaths = <<>>
    /\ filesToCleanup = <<>>
    /\ outcomes = <<>>
    /\ concatInputs = <<>>
    /\ words = <<>>
    /\ IdleReducer
    /\ IdleEditor
    /\ IdlePath
    /\ IdleTranscribe
    /\ cacheCall = <<>>
    /\ IdleServer
    /\ IdleDucking
    /\ IdleToggle
    /\ IdleAuth

\* what step 1 asks of a clip before it downloads it (line 375)
Processable(clip) == clip.videoUrl

\* the record pushed for clip (lines 383-408)
ProcessedClip(clip, total) ==
    LET analysis == clip.analysis
        actionStart == OrElse(analysis.action_start_seconds, 0)
        actionEnd == OrElse(analysis.action_end_seconds, clip.clipDuration)
        trimStart == Max(0, actionStart - SYNC_BUFFER)
        trimEnd == Min(clip.clipDuration, actionEnd + SYNC_BUFFER)
    IN [clipId |-> clip.id,
        duration |-> trimEnd - trimStart,
        startInFinal |-> total,
        actionPeakInClip |->
            OrElse(analysis.action_peak_seconds, actionStart + SecondUnits) - trimStart]

\* one turn of the loop of step 1; the download, the probe or the trim of a
\* clip may throw, and the catch only logs it
ProcessSyncedClip ==
    /\ pc = "synced_loop"
    /\ clipIndex < Len(clipsWithAnalysis)
    /\ LET clip == clipsWithAnalysis[clipIndex + 1] IN
       \E done \in IF Processable(clip) THEN BOOLEAN ELSE {FALSE} :
          IF done
          THEN LET c == ProcessedClip(clip, syncedTotalDuration) IN
               /\ processedClips' = Push(processedClips, c)
               /\ syncedTotalDuration' = syncedTotalDuration + c.duration
          ELSE UNCHANGED <<processedClips, syncedTotalDuration>>
    /\ clipIndex' = clipIndex + 1
    /\ UNCHANGED <<clientVars, serverVars, duckingVars, toggleVars, authVars,
                   clipsWithAnalysis, pc, words, reducerVars, editorVars, pathVars,
                   clipsWithSelections, titleCardUrl, trimmedPaths, filesToCleanup,
                   outcomes, concatInputs, concatVars>>

\* after the loop: the throw of line 415, or the call of concatenateVideos
\* with the trimmed files, whose probed durations are the trimmed durations
ConcatenateProcessed ==
    /\ pc = "synced_loop"
    /\ clipIndex = Len(clipsWithAnalysis)
    /\ IF Len(processedClips) = 0
       THEN /\ pc' = "synced_failed"
            /\ durations' = durations
       ELSE /\ pc' = "concat_call"
            /\ durations' = [k \in 1..Len(processedClips) |-> processedClips[k].duration]
    /\ UNCHANGED <<restVars, words, reducerVars, editorVars, pathVars, rundownVars,
                   transitionFrames, cumulativeDuration, xfadeOffsets>>

NextSynced ==
    \/ ProcessSyncedClip
    \/ ConcatenateProcessed
    \/ CopySingle
    \/ FirstStage
    \/ NextStage
    \/ RunFilterGraph

SpecSynced == InitSynced /\ [][NextSynced]_vars

\* where input k (1-based) begins in the timeline the filter graph produces:
\* at 0, or at the offset of the xfade stage that joins it
StartInTimeline(k) == IF k = 1 THEN 0 ELSE xfadeOffsets[k - 1] * MsUnits

\* C22: once step 2 has concatenated the trimmed clips, the startInFinal
\* recorded for every placed clip is the time at which the clip begins in
\* the concatenated timeline.
C22_StartInFinalIsTimelineStart ==
    pc = "concat_done" =>
        \A k \in 1..Len(processedClips) :
            processedClips[k].startInFinal = StartInTimeline(k)

\* C23: a clip without action analysis is never trimmed or placed: every
\* placed clip is one whose analysis succeeded.
C23_OnlyAnalyzedClipsPlaced ==
    \A k \in 1..Len(processedClips) :
        clipsWithAnalysis[processedClips[k].clipId].analysis.analyzed


(***************************************************************************)
(* Ducking of the original audio (video-processor.js 460-474, 496-573)     *)
(* Times are counted in ms, the times printed into the expression in       *)
(* 1/100 s, gains in tenths.                                               *)
(***************************************************************************)
MaxNarrations == 3
MaxTime == 5100
DUCKED == 2
UNDUCKED == 7
TAIL == 500
CentiUnits == 10

NarrationStarts == {0, 1004, 2500}
NarrationDurations == {1000, 1503}
Narrations == {[startTime |-> a, duration |-> d] : a \in NarrationStarts, d \in NarrationDurations}

\* x.toFixed(2) of a time of x ms, as a number of 1/100 s; none of the
\* inputs lies halfway between two printed values
ToFixed2(x) == (x + (CentiUnits \div 2)) \div CentiUnits

\* [...audioFiles].sort((a, b) => a.startTime - b.startTime), which is stable
RECURSIVE InsertByStart(_, _)
InsertByStart(sorted, seg) ==
    IF sorted = <<>> THEN <<seg>>
    ELSE IF Head(sorted).startTime <= seg.startTime
         THEN <<Head(sorted)>> \o InsertByStart(Tail(sorted), seg)
         ELSE <<seg>> \o sorted

RECURSIVE SortByStart(_)
SortByStart(arr) ==
    IF arr = <<>> THEN <<>>
    ELSE InsertByStart(SortByStart(SubSeq(arr, 1, Len(arr) - 1)), arr[Len(arr)])

DuckWindowNoTail(seg) ==
    [start |-> ToFixed2(seg.startTime), end |-> ToFixed2(seg.startTime + seg.duration)]

\* the start and end printed for one narration (lines 567-568)
DuckWindow(seg) ==
    [start |-> ToFixed2(seg.startTime), end |-> ToFixed2(seg.startTime + seg.duration + TAIL)]

\* the expression: <<>> is the constant, otherwise if(between(t,start,end),0.2,rest)
RECURSIVE NestedIf(_, _)
NestedIf(sorted, i) ==
    IF i > Len(sorted) THEN [const |-> UNDUCKED]
    ELSE [window |-> DuckWindow(sorted[i]), then |-> DUCKED, else |-> NestedIf(sorted, i + 1)]

buildDuckingKeyframes(files) ==
    IF Len(files) = 0 THEN [const |-> UNDUCKED]
    ELSE NestedIf(SortByStart(files), 1)

\* ffmpeg's evaluation of the expression at time t (ms): between is inclusive
RECURSIVE Eval(_, _)
Eval(expr, t) ==
    IF "const" \in DOMAIN expr THEN expr.const
    ELSE IF /\ expr.window.start * CentiUnits <= t
            /\ t <= expr.window.end * CentiUnits
         THEN expr.then
         ELSE Eval(expr.else, t)

InitDucking ==
    /\ pc = "mixing"
    /\ \E n \in 0..MaxNarrations : audioFiles \in [1..n -> Narrations]
    /\ volumeKeyframes = <<>>
    /\ words = <<>>
    /\ IdleReducer
    /\ IdleEditor
    /\ IdlePath
    /\ IdleRundown
    /\ IdleConcat
    /\ IdleTranscribe
    /\ cacheCall = <<>>
    /\ IdleServer
    /\ IdleSynced
    /\ IdleToggle
    /\ IdleAuth

\* step 4 of createSyncedPackage without narration: '-af', 'volume=0.7'
MixWithoutNarration ==
    /\ pc = "mixing"
    /\ Len(audioFiles) = 0
    /\ volumeKeyframes' = <<[const |-> UNDUCKED]>>
    /\ pc' = "mixed"
    /\ UNCHANGED <<clientVars, serverVars, syncedVars, toggleVars, authVars, audioFiles,
                   assemblyVarsButPc>>

\* step 4 with narration: the volume filter of mixAudioWithDucking
mixAudioWithDucking ==
    /\ pc = "mixing"
    /\ Len(audioFiles) > 0
    /\ volumeKeyframes' = <<buildDuckingKeyframes(audioFiles)>>
    /\ pc' = "mixed"
    /\ UNCHANGED <<clientVars, serverVars, syncedVars, toggleVars, authVars, audioFiles,
                   assemblyVarsButPc>>

NextDucking ==
    \/ MixWithoutNarration
    \/ mixAudioWithDucking

SpecDucking == InitDucking /\ [][NextDucking]_vars

Times == 0..MaxTime

InNarration(t) ==
    \E k \in 1..Len(audioFiles) :
        /\ audioFiles[k].startTime <= t
        /\ t <= audioFiles[k].startTime + audioFiles[k].duration + TAIL

InPrintedWindow(t) ==
    \E k \in 1..Len(audioFiles) :
        /\ ToFixed2(audioFiles[k].startTime) * CentiUnits <= t
        /\ t <= ToFixed2(audioFiles[k].startTime + audioFiles[k].duration + TAIL) * CentiUnits

\* C24 as stated: at every time t the gain of the original audio is 0.2 when
\* t lies in [start, start + duration + 0.5] of a narration, 0.7 otherwise.
C24_ExactEnvelope ==
    pc = "mixed" =>
        \A t \in Times :
            Eval(volumeKeyframes[1], t) = IF InNarration(t) THEN DUCKED ELSE UNDUCKED

\* C24 (amended): at every time t the gain of the original audio is 0.2 when
\* t lies between start and start + duration + 0.5 of a narration, both
\* rounded to 1/100 s, and 0.7 otherwise, whatever the order and the
\* overlaps of the narrations.
C24_EnvelopeToTheCentisecond ==
    pc = "mixed" =>
        \A t \in Times :
            Eval(volumeKeyframes[1], t) = IF InPrintedWindow(t) THEN DUCKED ELSE UNDUCKED

C24_Witness ==
    /\ pc = "mixed"
    /\ Len(audioFiles) = 3
    /\ audioFiles[1].startTime > audioFiles[2].startTime
    /\ \E t \in Times : InPrintedWindow(t) /\ ~InNarration(t)
    /\ \E t \in Times : \E j, k \in 1..3 :
          /\ j # k
          /\ audioFiles[j].startTime < audioFiles[k].startTime
          /\ audioFiles[k].startTime <= t
          /\ t <= audioFiles[j].startTime + audioFiles[j].duration
          /\ Eval(volumeKeyframes[1], t) = DUCKED
    /\ \E t \in Times : Eval(volumeKeyframes[1], t) = UNDUCKED



(***************************************************************************)
(* Transcription in the play list: feed changes, coalesced callers and     *)
(* the in-flight marker                                                    *)
(***************************************************************************)
Settled == inflight = <<>>

\* C25: once every transcription request has been answered, the transcript
\* stored for a play is the transcript of the URL of the play's current feed.
C25_TranscriptOfCurrentFeed ==
    Settled =>
        \A key \in Keys :
            Len(transcriptData[key].transcript) > 0 =>
                transcriptData[key].transcript =
                    ProviderResult(getVideoUrlForFeed(key, CurrentFeed(key))).words


HasResult(key) ==
    \/ Len(transcriptData[key].transcript) > 0
    \/ transcriptData[key].error # <<>>

\* C26: when plays that resolve to the same video URL have asked for its
\* transcript and the single request has settled, every one of them has a
\* transcript or an error: no selected play is left with neither.
C26_CoalescedCallersServed ==
    (Settled /\ toTranscribe = <<>>) => \A key \in selectedKeys : HasResult(key)


\* C29: a URL is in transcribingRef only while a request for it is pending,
\* and the step that ends its request, with a result or with an error,
\* removes it, so that the next transcribeClip for the URL is not turned away.
C29_MarkerReleased ==
    [][\A u \in URLs :
          /\ (InFlightFor(u) # {} /\ InFlightFor(u)' = {}) => ~AlreadyTranscribing(u)'
          /\ AlreadyTranscribing(u)' => InFlightFor(u)' # {}]_vars

C29_Witness ==
    \E u \in URLs :
        /\ submissions[u] = 2
        /\ AlreadyTranscribing(u)
        /\ \E key \in Keys : transcriptData[key].isTranscribing
        /\ Len(inflight) = 1


\* C28: every selected word index stored for a play is an index of a word of
\* the transcript stored for that play.
C28_SelectionWithinTranscript ==
    \A key \in Keys :
        Len(transcriptData[key].transcript) > 0 =>
            \A k \in 1..Len(transcriptData[key].selectedWords) :
                transcriptData[key].selectedWords[k]
                    \in 0..(Len(transcriptData[key].transcript) - 1)


(***************************************************************************)
(* Inning transitions of the play list (UnifiedPlayList.js 378, 389-441)   *)
(* The transcript side of toggleSelection is the subject of                *)
(* SpecTranscribe; it does not touch activeTransitions.                    *)
(***************************************************************************)
AtBats == {"a1", "a2", "a3"}

\* getTransitionKey(ab.halfInning, ab.inning)
getTransitionKey(ab) == IF ab = "a3" THEN "bot-1" ELSE "top-1"

\* inningGroup.plays.some(ab => selectedKeys.has(getAtBatKey(ab)))
hasSelectedPlays(transitionKey, selected) ==
    \E ab \in selected : getTransitionKey(ab) = transitionKey

\* !prev[transitionKey]; a key that is not in the object is <<>>
Negated(value) == IF value = <<>> THEN TRUE ELSE ~value[1]

\* the mount of the play list: nothing toggled, the first render done and
\* its effects still to run
InitToggle ==
    /\ pc = "rendering"
    /\ selectedKeys \in {{}, {"a1"}}
    /\ activeTransitions = [t \in TransitionKeys |-> <<>>]
    /\ manualOverride = [t \in TransitionKeys |-> <<>>]
    /\ renders = 1
    /\ now = 1
    /\ localStorage = [u \in URLs |-> <<>>]
    /\ otherTranscripts = 0
    /\ transcribingRef = {}
    /\ inflight = <<>>
    /\ transcriptData = [k \in Keys |-> NoTranscriptData]
    /\ toTranscribe = <<>>
    /\ awaited = <<>>
    /\ submissions = [u \in URLs |-> 0]
    /\ cacheCall = <<>>
    /\ IdleServer
    /\ IdleSynced
    /\ IdleDucking
    /\ IdleAuth
    /\ words = <<>>
    /\ IdleReducer
    /\ IdleEditor
    /\ IdlePath
    /\ IdleRundown
    /\ IdleConcat

toggleFrame ==
    UNCHANGED <<assemblyVars, serverVars, syncedVars, duckingVars, authVars, cacheCall,
                now, localStorage, otherTranscripts, transcribingRef, inflight,
                transcriptData, toTranscribe, awaited, submissions>>

\* the user clicks the transition of a half-inning; the state change renders
toggleTransition(transitionKey) ==
    /\ renders = 0
    /\ activeTransitions' = [activeTransitions EXCEPT ![transitionKey] = <<Negated(@)>>]
    /\ manualOverride' = [manualOverride EXCEPT
                             ![transitionKey] = <<Negated(activeTransitions[transitionKey])>>]
    /\ renders' = 1
    /\ UNCHANGED selectedKeys
    /\ toggleFrame

\* setSelectedKeys of toggleSelection (879-889); a toggled transition stops
\* being an override when its half-inning gains its first or loses its last
\* selected play
SelectPlay(ab) ==
    /\ renders = 0
    /\ selectedKeys' = IF ab \in selectedKeys THEN selectedKeys \ {ab}
                       ELSE selectedKeys \cup {ab}
    /\ manualOverride' = [t \in TransitionKeys |->
          IF hasSelectedPlays(t, selectedKeys') # hasSelectedPlays(t, selectedKeys)
          THEN <<>> ELSE manualOverride[t]]
    /\ renders' = 1
    /\ UNCHANGED activeTransitions
    /\ toggleFrame

\* another state of the component changes (a transcript arrives, a section
\* is expanded): the component renders again
Rerender ==
    /\ renders = 0
    /\ renders' = 1
    /\ UNCHANGED <<selectedKeys, activeTransitions, manualOverride>>
    /\ toggleFrame

\* the updater of the effect (422-438)
AutoActivate(prev, selected) ==
    [t \in TransitionKeys |->
        IF prev[t] # <<hasSelectedPlays(t, selected)>>
        THEN <<hasSelectedPlays(t, selected)>> ELSE prev[t]]

\* the effect with the dependencies [selectedKeys, sortedInnings] runs after
\* every render, sortedInnings being a new array in each of them (399-404);
\* when it changes the state the component renders once more
AutoActivateEffect ==
    /\ renders = 1
    /\ activeTransitions' = AutoActivate(activeTransitions, selectedKeys)
    /\ renders' = IF activeTransitions' # activeTransitions THEN 1 ELSE 0
    /\ UNCHANGED <<selectedKeys, manualOverride>>
    /\ toggleFrame

NextToggle ==
    \/ \E transitionKey \in TransitionKeys : toggleTransition(transitionKey)
    \/ \E ab \in AtBats : SelectPlay(ab)
    \/ Rerender
    \/ AutoActivateEffect

SpecToggle == InitToggle /\ [][NextToggle]_vars

\* C27: a transition the user has toggled keeps the toggled value, across
\* re-renders, for as long as its half-inning has not gone from no selected
\* play to some or from some to none.
C27_ManualOverridePersists ==
    \A t \in TransitionKeys :
        manualOverride[t] # <<>> => activeTransitions[t] = manualOverride[t]


(***************************************************************************)
(* MLB.TV authentication (mlbtv-auth.js 36-46 and 88-503,                  *)
(* api/mlbtv/auth/route.js 9-36). A token is the name of the user it was   *)
(* issued for; the steps that do not depend on the user (API keys, Okta    *)
(* client id, device session) are part of the step that follows them.      *)
(***************************************************************************)
Users == {"A", "B"}
Passwords == {"right", "wrong", ""}
EXPIRES_IN == 1

NoSession ==
    [sessionToken |-> <<>>, oktaAccessToken |-> <<>>, accessToken |-> <<>>,
     accessTokenExpiry |-> 0]
IdleCall ==
    [pc |-> "idle", username |-> "", password |-> "", entitlementToken |-> <<>>,
     response |-> <<>>]

InitAuth ==
    /\ pc = "serving"
    /\ sessionState = NoSession
    /\ authCalls = [c \in Requests |-> IdleCall]
    /\ IdleTranscribe
    /\ cacheCall = <<>>
    /\ IdleServer
    /\ IdleSynced
    /\ IdleDucking
    /\ IdleToggle
    /\ words = <<>>
    /\ IdleReducer
    /\ IdleEditor
    /\ IdlePath
    /\ IdleRundown
    /\ IdleConcat

authFrame ==
    UNCHANGED <<assemblyVars, clientVars, serverVars, syncedVars, duckingVars, toggleVars>>

\* the cached token of the module, if it has not expired (462-468)
CachedToken(state, t) ==
    IF state.accessToken # <<>> /\ state.accessTokenExpiry > t
    THEN state.accessToken ELSE <<>>

\* POST /api/mlbtv/auth up to the first await of authenticate
PostAuth(c, username, password) ==
    /\ authCalls[c].pc = "idle"
    /\ authCalls' = [authCalls EXCEPT ![c] =
          IF password = ""
          THEN [@ EXCEPT !.pc = "done", !.username = username, !.password = password,
                         !.response = [status |-> 400, token |-> <<>>]]
          ELSE IF CachedToken(sessionState, now) # <<>>
               THEN [@ EXCEPT !.pc = "done", !.username = username, !.password = password,
                              !.response = [status |-> 200,
                                            token |-> CachedToken(sessionState, now)]]
               ELSE [@ EXCEPT !.pc = "login", !.username = username,
                              !.password = password]]
    /\ UNCHANGED sessionState
    /\ authFrame

\* step 1: the identity provider answers the credentials (88-125)
login(c) ==
    /\ authCalls[c].pc = "login"
    /\ IF authCalls[c].password = "right"
       THEN /\ sessionState' = [sessionState EXCEPT !.sessionToken = <<authCalls[c].username>>]
            /\ authCalls' = [authCalls EXCEPT ![c].pc = "okta"]
       ELSE /\ authCalls' = [authCalls EXCEPT
                                ![c].pc = "done",
                                ![c].response = [status |-> 401, token |-> <<>>]]
            /\ UNCHANGED sessionState
    /\ authFrame

\* steps 2 to 4: the Okta token of sessionState.sessionToken (194-289)
getOktaAccessToken(c) ==
    /\ authCalls[c].pc = "okta"
    /\ sessionState' = [sessionState EXCEPT !.oktaAccessToken = sessionState.sessionToken]
    /\ authCalls' = [authCalls EXCEPT ![c].pc = "entitlement"]
    /\ authFrame

\* steps 5 to 8: the entitlement of sessionState.oktaAccessToken (294-415)
getEntitlementToken(c) ==
    /\ authCalls[c].pc = "entitlement"
    /\ authCalls' = [authCalls EXCEPT ![c].pc = "final",
                                      ![c].entitlementToken = sessionState.oktaAccessToken]
    /\ UNCHANGED sessionState
    /\ authFrame

\* step 9 and the answer of the route (420-455, route.js 21-29)
getFinalAccessToken(c) ==
    /\ authCalls[c].pc = "final"
    /\ sessionState' = [sessionState EXCEPT
                           !.accessToken = authCalls[c].entitlementToken,
                           !.accessTokenExpiry = now + EXPIRES_IN]
    /\ authCalls' = [authCalls EXCEPT
                        ![c].pc = "done",
                        ![c].response = [status |-> 200,
                                         token |-> authCalls[c].entitlementToken]]
    /\ authFrame

\* a request of one of the steps fails: authenticate throws, the route
\* answers 401
StepFails(c) ==
    /\ authCalls[c].pc \in {"okta", "entitlement", "final"}
    /\ authCalls' = [authCalls EXCEPT ![c].pc = "done",
                                      ![c].response = [status |-> 401, token |-> <<>>]]
    /\ UNCHANGED sessionState
    /\ authFrame

NextAuth ==
    \/ \E c \in Requests, username \in Users, password \in Passwords :
          PostAuth(c, username, password)
    \/ \E c \in Requests : login(c)
    \/ \E c \in Requests : getOktaAccessToken(c)
    \/ \E c \in Requests : getEntitlementToken(c)
    \/ \E c \in Requests : getFinalAccessToken(c)
    \/ \E c \in Requests : StepFails(c)
    \/ Tick

SpecAuth == InitAuth /\ [][NextAuth]_vars

\* C30: a call that is answered with a token was made with the right
\* password, and the token is one issued for the user of that call.
C30_TokenOfTheCaller ==
    \A c \in Requests :
        (authCalls[c].pc = "done" /\ authCalls[c].response.token # <<>>) =>
            /\ authCalls[c].password = "right"
            /\ authCalls[c].response.token = <<authCalls[c].username>>

====
